---- MODULE Spec2Model ----
(***************************************************************************)
(* Model of the flexible-io capability handles (Reader / Writer, their     *)
(* borrowed views ReaderMut / WriterMut and their boxes ReaderBox /        *)
(* WriterBox) and of the stream values they wrap.                          *)
(*                                                                         *)
(* A raw trait pointer is a pair of an address and a vtable; the vtable    *)
(* names the trait and the implementing type.  Memory maps an address to   *)
(* the stream value stored there, or to Dead when nothing lives there.     *)
(* The wrapped stream values are the Cursor and slice implementations of   *)
(* this repository (src/src/impls_always.rs, src/src/impls_alloc.rs).      *)
(*                                                                         *)
(* The second half models the baseline library itself (src/src): the       *)
(* opaque Error, read_exact, write_all, Cursor, Take, read_to_end,         *)
(* read_to_string, read_line, read_until, copy and the byte-slice impls,   *)
(* each run on values of its own under the specification SpecLib;          *)
(* SpecLoops runs read_exact and write_all alone, to their return.         *)
(***************************************************************************)
EXTENDS Integers, Sequences, FiniteSets, TLC

\* the program's state
VARIABLES kind, form, loc, mem, handle, view, box, ret, panicked, rws
\* history of the run: the capabilities declared so far, whether the last
\* step declared one again, the value passed to new, the stream state all
\* operations so far amount to, whether any stream operation was made, and
\* whether one had been made when into_boxed was called
VARIABLES declared, redecl, orig, logical, mutated, atBox
\* the state of a run of the baseline library (src/src): the stream or error
\* value an operation works on, its arguments, its locals and its result
VARIABLES lib

\* the variables of the handle model
hvars == <<kind, form, loc, mem, handle, view, box, ret, panicked, rws,
           declared, redecl, orig, logical, mutated, atBox>>
vars == <<kind, form, loc, mem, handle, view, box, ret, panicked, rws,
          declared, redecl, orig, logical, mutated, atBox, lib>>

(***************************************************************************)
(* Bounds.                                                                 *)
(***************************************************************************)
\* longest stream content
MaxLen == 3
\* number of stack places a handle can live at
MaxAddr == 2
\* largest cursor position the model lets a stream reach
MaxPos == 4
\* longest buffer handed to one write call
MaxWrite == 2

\* width of the machine word: u64, i64 and usize are WordBits wide
WordBits == 5
U64 == 2^WordBits
I64Max == (U64 \div 2) - 1
I64Min == -(U64 \div 2)

HeapAddr == MaxAddr + 1
Stack == 1..MaxAddr
Addrs == {HeapAddr} \cup Stack

Min(a, b) == IF a <= b THEN a ELSE b

None == [none |-> TRUE]
Dead == [ty |-> "dead", data |-> <<>>, pos |-> 0]

(***************************************************************************)
(* Stream values.  A Cursor is its container and its position.  A shared   *)
(* slice (&[u8]) is the bytes it still covers.  A mutable slice            *)
(* (&mut [u8]) is the buffer it borrows from and the offset at which the   *)
(* part it still covers starts.                                            *)
(***************************************************************************)
ReaderTypes == {"Cursor", "Slice"}
WriterTypes == {"Cursor", "SliceMut"}

\* the traits each concrete type implements (the setters' where-clauses)
Impls(ty) ==
    CASE ty = "Cursor"   -> {"Read", "BufRead", "Seek", "Write", "Any"}
      [] ty = "Slice"    -> {"Read", "BufRead", "Any"}
      [] ty = "SliceMut" -> {"Write"}
      [] OTHER           -> {}

\* the slots of the OptTable of reader.rs and of writer.rs
Caps(k) == IF k = "Reader" THEN {"Seek", "BufRead", "Any"} ELSE {"Seek", "Any"}
Mandatory(k) == IF k = "Reader" THEN "Read" ELSE "Write"

Cursor_new(inner) == [ty |-> "Cursor", data |-> inner, pos |-> 0]

\* impl Read for &[u8]: the bytes copied out and the slice left
Slice_read(slice, n) ==
    LET len == Min(Len(slice), n)
    IN  [n |-> len, out |-> SubSeq(slice, 1, len),
         rest |-> SubSeq(slice, len + 1, Len(slice))]

\* impl BufRead for Cursor
Cursor_fill_buf(s) ==
    LET pos == Min(s.pos, Len(s.data))
    IN  SubSeq(s.data, pos + 1, Len(s.data))

Cursor_consume(s, amt) == [s EXCEPT !.pos = (s.pos + amt) % U64]

\* slip: the bytes are copied out and the position is left where it was
Cursor_read_stay(s, n) ==
    LET read == Slice_read(Cursor_fill_buf(s), n)
    IN  [n |-> read.n, out |-> read.out, s |-> s, err |-> "", panic |-> FALSE]

\* impl Read for Cursor
Cursor_read(s, n) ==
    LET read == Slice_read(Cursor_fill_buf(s), n)
    IN  [n |-> read.n, out |-> read.out, s |-> Cursor_consume(s, read.n),
         err |-> "", panic |-> FALSE]

\* impl Write for &mut [u8]: head.copy_from_slice(buf) panics unless the two
\* lengths agree
SliceMut_write(slice, buf) ==
    LET len == Min(Len(slice), Len(buf))
    IN  IF Len(buf) # len
        THEN [n |-> 0, head |-> SubSeq(slice, 1, len),
              tail |-> SubSeq(slice, len + 1, Len(slice)), panic |-> TRUE]
        ELSE [n |-> len, head |-> buf,
              tail |-> SubSeq(slice, len + 1, Len(slice)), panic |-> FALSE]

\* impl Write for Cursor<&mut [u8]>
Cursor_write(s, buf) ==
    LET pos == Min(s.pos, Len(s.data))
        w   == SliceMut_write(SubSeq(s.data, pos + 1, Len(s.data)), buf)
    IN  IF w.panic
        THEN [n |-> 0, out |-> <<>>, s |-> s, err |-> "", panic |-> TRUE]
        ELSE [n |-> w.n, out |-> <<>>,
              s |-> [s EXCEPT !.data = SubSeq(s.data, 1, pos) \o w.head \o w.tail,
                              !.pos = (s.pos + w.n) % U64],
              err |-> "", panic |-> FALSE]

\* impl Seek for Cursor; a SeekFrom is [from, n]
wrapping_neg(n) == IF n = I64Min THEN I64Min ELSE -n
as_u64(n) == n % U64
checked_add(a, b) == IF a + b < U64 THEN a + b ELSE -1
checked_sub(a, b) == IF a - b >= 0 THEN a - b ELSE -1

\* slip: a negative offset is negated without regard to i64::MIN, whose
\* negation does not fit and reads as a subtraction of nothing
Cursor_seek_neg(s, sf) ==
    IF sf.from = "Start"
    THEN [n |-> sf.n, out |-> <<>>, s |-> [s EXCEPT !.pos = sf.n],
          err |-> "", panic |-> FALSE]
    ELSE LET base_pos == IF sf.from = "End" THEN Len(s.data) ELSE s.pos
             offset   == sf.n
             new_pos  == IF offset >= 0
                         THEN checked_add(base_pos, as_u64(offset))
                         ELSE IF offset = I64Min
                              THEN base_pos
                              ELSE checked_sub(base_pos, -offset)
         IN  IF new_pos = -1
             THEN [n |-> 0, out |-> <<>>, s |-> s,
                   err |-> "InvalidInput", panic |-> FALSE]
             ELSE [n |-> new_pos, out |-> <<>>, s |-> [s EXCEPT !.pos = new_pos],
                   err |-> "", panic |-> FALSE]

\* slip: the position is assigned before the result is examined, a failed
\* seek leaving the wrapped sum
Cursor_seek_assign(s, sf) ==
    IF sf.from = "Start"
    THEN [n |-> sf.n, out |-> <<>>, s |-> [s EXCEPT !.pos = sf.n],
          err |-> "", panic |-> FALSE]
    ELSE LET base_pos == IF sf.from = "End" THEN Len(s.data) ELSE s.pos
             offset   == sf.n
             new_pos  == IF offset >= 0
                         THEN checked_add(base_pos, as_u64(offset))
                         ELSE checked_sub(base_pos, as_u64(wrapping_neg(offset)))
         IN  IF new_pos = -1
             THEN [n |-> 0, out |-> <<>>,
                   s |-> [s EXCEPT !.pos = (base_pos + offset) % U64],
                   err |-> "InvalidInput", panic |-> FALSE]
             ELSE [n |-> new_pos, out |-> <<>>, s |-> [s EXCEPT !.pos = new_pos],
                   err |-> "", panic |-> FALSE]

Cursor_seek(s, sf) ==
    IF sf.from = "Start"
    THEN [n |-> sf.n, out |-> <<>>, s |-> [s EXCEPT !.pos = sf.n],
          err |-> "", panic |-> FALSE]
    ELSE LET base_pos == IF sf.from = "End" THEN Len(s.data) ELSE s.pos
             offset   == sf.n
             new_pos  == IF offset >= 0
                         THEN checked_add(base_pos, as_u64(offset))
                         ELSE checked_sub(base_pos, as_u64(wrapping_neg(offset)))
         IN  IF new_pos = -1
             THEN [n |-> 0, out |-> <<>>, s |-> s,
                   err |-> "InvalidInput", panic |-> FALSE]
             ELSE [n |-> new_pos, out |-> <<>>, s |-> [s EXCEPT !.pos = new_pos],
                   err |-> "", panic |-> FALSE]

\* impl Read / BufRead for &[u8], the stream value being the slice itself
SliceStream_read(s, n) ==
    LET read == Slice_read(s.data, n)
    IN  [n |-> read.n, out |-> read.out, s |-> [s EXCEPT !.data = read.rest],
         err |-> "", panic |-> FALSE]

SliceStream_fill_buf(s) == s.data

\* &self[n..] panics when n exceeds the length
SliceStream_consume(s, amt) ==
    IF amt > Len(s.data)
    THEN [n |-> 0, out |-> <<>>, s |-> s, err |-> "", panic |-> TRUE]
    ELSE [n |-> 0, out |-> <<>>,
          s |-> [s EXCEPT !.data = SubSeq(s.data, amt + 1, Len(s.data))],
          err |-> "", panic |-> FALSE]

\* impl Write for &mut [u8], the stream value being the slice itself: the
\* slice is replaced by its tail before the copy can panic
SliceMutStream_write(s, buf) ==
    LET w == SliceMut_write(SubSeq(s.data, s.pos + 1, Len(s.data)), buf)
        len == Min(Len(s.data) - s.pos, Len(buf))
    IN  IF w.panic
        THEN [n |-> 0, out |-> <<>>, s |-> [s EXCEPT !.pos = s.pos + len],
              err |-> "", panic |-> TRUE]
        ELSE [n |-> w.n, out |-> <<>>,
              s |-> [s EXCEPT !.data = SubSeq(s.data, 1, s.pos) \o w.head \o w.tail,
                              !.pos = s.pos + len],
              err |-> "", panic |-> FALSE]

(***************************************************************************)
(* Raw trait pointers and their recombination.                             *)
(***************************************************************************)
\* lifetime_erase_trait_vtable!((&mut r) as Trait): the address of r with the
\* vtable of the implementation of Trait for r's type
lifetime_erase_trait_vtable(addr, trait, ty) ==
    [addr |-> addr, vt |-> [trait |-> trait, ty |-> ty]]

\* inject_in_metadata_of(addr, ptr): overwrite the address word of ptr
inject_in_metadata_of(addr, ptr) == [ptr EXCEPT !.addr = addr]

\* slip: the stored pointer is used as it is, its address word kept
with_metadata_of_stale(addr, ptr) == ptr

with_metadata_of_on_stable(addr, ptr) == inject_in_metadata_of(addr, ptr)

\* `stored?` followed by the recombination, as every optional getter does
Recombine(addr, stored) ==
    IF stored = None THEN None ELSE with_metadata_of_on_stable(addr, stored)

\* slip: the table starts with the Any slot filled from the argument
Reader_new_seeded(k, ty, a0) ==
    [io     |-> lifetime_erase_trait_vtable(a0, Mandatory(k), ty),
     vtable |-> [c \in Caps(k) |->
                   IF c = "Any" THEN lifetime_erase_trait_vtable(a0, c, ty)
                                ELSE None]]

\* Reader::new / Writer::new; a0 is the place of the constructor's argument
Reader_new(k, ty, a0) ==
    [io     |-> lifetime_erase_trait_vtable(a0, Mandatory(k), ty),
     vtable |-> [c \in Caps(k) |-> None]]

\* the type of the wrapped value, fixed when the handle is built
Ty == orig.ty

(***************************************************************************)
(* Getters of Reader<R> / Writer<W>: the address is that of self.inner.    *)
(***************************************************************************)
Reader_as_read     == with_metadata_of_on_stable(loc, handle.io)
Reader_as_read_mut == with_metadata_of_on_stable(loc, handle.io)
Reader_as_buf      == Recombine(loc, handle.vtable["BufRead"])
Reader_as_buf_mut  == Recombine(loc, handle.vtable["BufRead"])
Reader_as_seek     == Recombine(loc, handle.vtable["Seek"])
\* slip: the stored Seek pointer is handed out without recombination
Reader_as_seek_mut_stale == handle.vtable["Seek"]

Reader_as_seek_mut == Recombine(loc, handle.vtable["Seek"])
Reader_as_any      == Recombine(loc, handle.vtable["Any"])
Reader_as_any_mut  == Recombine(loc, handle.vtable["Any"])

(***************************************************************************)
(* Getters of ReaderMut / WriterMut: the address is that of the borrowed   *)
(* mandatory reference.                                                    *)
(***************************************************************************)
ReaderMut_as_read_mut == view.inner
ReaderMut_as_buf_mut  == Recombine(view.inner.addr, view.vtable["BufRead"])
ReaderMut_as_seek_mut == Recombine(view.inner.addr, view.vtable["Seek"])
ReaderMut_as_any      == Recombine(view.inner.addr, view.vtable["Any"])
ReaderMut_as_any_mut  == Recombine(view.inner.addr, view.vtable["Any"])

(***************************************************************************)
(* Getters of ReaderBox / WriterBox: the address is that of the boxed      *)
(* value.                                                                  *)
(***************************************************************************)
ReaderBox_as_read_mut == box.inner
ReaderBox_as_buf_mut  == Recombine(box.inner.addr, box.vtable["BufRead"])
ReaderBox_as_seek_mut == Recombine(box.inner.addr, box.vtable["Seek"])
ReaderBox_as_any      == Recombine(box.inner.addr, box.vtable["Any"])
ReaderBox_as_any_mut  == Recombine(box.inner.addr, box.vtable["Any"])

\* the objects a caller can hold, and the ones usable now: a live view
\* borrows its origin exclusively
Targets == {"handle", "view", "box"}
Live(t) ==
    CASE t = "view"   -> view # None
      [] t = "handle" -> form = "handle" /\ view = None
      [] t = "box"    -> form = "boxed" /\ view = None
Usable(t) ==
    /\ ~panicked
    /\ rws.pc = "idle"
    /\ CASE t = "view"   -> view # None
         [] t = "handle" -> form = "handle" /\ view = None
         [] t = "box"    -> form = "boxed" /\ view = None

\* the mutable getter for trait tr on object t
GetMut(t, tr) ==
    CASE t = "handle" /\ tr \in {"Read", "Write"} -> Reader_as_read_mut
      [] t = "handle" /\ tr = "BufRead" -> Reader_as_buf_mut
      [] t = "handle" /\ tr = "Seek"    -> Reader_as_seek_mut
      [] t = "handle" /\ tr = "Any"     -> Reader_as_any_mut
      [] t = "view" /\ tr \in {"Read", "Write"} -> ReaderMut_as_read_mut
      [] t = "view" /\ tr = "BufRead"   -> ReaderMut_as_buf_mut
      [] t = "view" /\ tr = "Seek"      -> ReaderMut_as_seek_mut
      [] t = "view" /\ tr = "Any"       -> ReaderMut_as_any_mut
      [] t = "box" /\ tr \in {"Read", "Write"} -> ReaderBox_as_read_mut
      [] t = "box" /\ tr = "BufRead"    -> ReaderBox_as_buf_mut
      [] t = "box" /\ tr = "Seek"       -> ReaderBox_as_seek_mut
      [] t = "box" /\ tr = "Any"        -> ReaderBox_as_any_mut

\* the shared getters: all of them on a handle, as_any alone on the others
HasRef(t, tr) == t = "handle" \/ tr = "Any"
GetRef(t, tr) ==
    CASE t = "handle" /\ tr \in {"Read", "Write"} -> Reader_as_read
      [] t = "handle" /\ tr = "BufRead" -> Reader_as_buf
      [] t = "handle" /\ tr = "Seek"    -> Reader_as_seek
      [] t = "handle" /\ tr = "Any"     -> Reader_as_any
      [] t = "view" /\ tr = "Any"       -> ReaderMut_as_any
      [] t = "box" /\ tr = "Any"        -> ReaderBox_as_any

(***************************************************************************)
(* Calling a trait method through a recombined pointer: the vtable picks   *)
(* the implementation, the address picks the value it runs on.             *)
(***************************************************************************)
Unit(s) == [n |-> 0, out |-> <<>>, s |-> s, err |-> "", panic |-> FALSE]

Invoke(vt, method, s, arg) ==
    CASE vt.trait = "Read" /\ vt.ty = "Cursor" /\ method = "read" ->
             Cursor_read(s, arg)
      [] vt.trait = "Read" /\ vt.ty = "Slice" /\ method = "read" ->
             SliceStream_read(s, arg)
      [] vt.trait = "Write" /\ vt.ty = "Cursor" /\ method = "write" ->
             Cursor_write(s, arg)
      [] vt.trait = "Write" /\ vt.ty = "SliceMut" /\ method = "write" ->
             SliceMutStream_write(s, arg)
      [] vt.trait = "Seek" /\ vt.ty = "Cursor" /\ method = "seek" ->
             Cursor_seek(s, arg)
      [] vt.trait = "BufRead" /\ vt.ty = "Cursor" /\ method = "consume" ->
             Unit(Cursor_consume(s, arg))
      [] vt.trait = "BufRead" /\ vt.ty = "Slice" /\ method = "consume" ->
             SliceStream_consume(s, arg)

\* BufRead::fill_buf through a pointer (it changes neither implementation)
FillBuf(acc) ==
    IF acc.vt.ty = "Cursor" THEN Cursor_fill_buf(mem[acc.addr])
                            ELSE SliceStream_fill_buf(mem[acc.addr])
\* Seek::stream_position through a pointer
StreamPosition(acc) == mem[acc.addr].pos
\* Any::type_id through a pointer, and downcast_ref::<T>
TypeId(acc) == acc.vt.ty
Downcast(acc, T) ==
    IF acc # None /\ acc.vt.trait = "Any" /\ TypeId(acc) = T
    THEN mem[acc.addr] ELSE None

(***************************************************************************)
(* Inputs.                                                                 *)
(***************************************************************************)
Iota(n) == [i \in 1..n |-> i]
Zeros(n) == [i \in 1..n |-> 0]
WBytes == {7, 8}
WriteBufs == UNION {[1..n -> WBytes] : n \in 0..MaxWrite}
SeekArgs ==
    {[from |-> "Start", n |-> n] : n \in 0..MaxPos}
    \cup {[from |-> f, n |-> n] : f \in {"End", "Current"},
                                  n \in {I64Min, -1, 1}}

Streams(k) ==
    IF k = "Reader"
    THEN {Cursor_new(Iota(n)) : n \in 0..MaxLen}
         \cup {[ty |-> "Slice", data |-> Iota(n), pos |-> 0] : n \in 0..MaxLen}
    ELSE {Cursor_new(Zeros(n)) : n \in 0..MaxLen}
         \cup {[ty |-> "SliceMut", data |-> Zeros(n), pos |-> 0] : n \in 0..MaxLen}

\* read_with_skip is not running
RwsIdle == [pc |-> "idle", t |-> "", skip0 |-> 0, skip |-> 0, buf0 |-> <<>>,
            buffer |-> <<>>, seekable |-> None, num_seek |-> 0,
            num_read |-> 0, res |-> ""]

(***************************************************************************)
(* Initial state: a handle just built by new around a stream value, the    *)
(* value having moved from the argument's place a0 to the handle at a1.    *)
(***************************************************************************)
Init ==
    \E k \in {"Reader", "Writer"}, a0 \in Stack, a1 \in Stack :
      \E stream \in Streams(k) :
        /\ kind = k
        /\ form = "handle"
        /\ loc = a1
        /\ mem = [a \in Addrs |-> IF a = a1 THEN stream ELSE Dead]
        /\ handle = Reader_new(k, stream.ty, a0)
        /\ view = None
        /\ box = None
        /\ ret = Dead
        /\ panicked = FALSE
        /\ declared = {}
        /\ orig = stream
        /\ logical = stream
        /\ mutated = FALSE
        /\ redecl = FALSE
        /\ atBox = FALSE
        /\ rws = RwsIdle
        /\ lib = None

(***************************************************************************)
(* Declarations.                                                           *)
(***************************************************************************)
\* slip: declaring a capability that is already there takes it away
Declare_toggle(tr) ==
    /\ Usable("handle")
    /\ tr \in Caps(kind)
    /\ tr \in Impls(Ty)
    /\ handle' = [handle EXCEPT
                    !.vtable[tr] = IF handle.vtable[tr] # None THEN None
                                   ELSE lifetime_erase_trait_vtable(loc, tr, Ty)]
    /\ declared' = declared \cup {tr}
    /\ redecl' = (tr \in declared)
    /\ UNCHANGED <<lib, kind, form, loc, mem, view, box, ret, panicked, rws,
                   orig, logical, mutated, atBox>>

\* slip: a declaration renews every slot that is populated
Declare_renew(tr) ==
    /\ Usable("handle")
    /\ tr \in Caps(kind)
    /\ tr \in Impls(Ty)
    /\ handle' = [handle EXCEPT
                    !.vtable = [c \in Caps(kind) |->
                                  IF c = tr \/ handle.vtable[c] # None
                                  THEN lifetime_erase_trait_vtable(loc, c, Ty)
                                  ELSE None]]
    /\ declared' = declared \cup {tr}
    /\ redecl' = (tr \in declared)
    /\ UNCHANGED <<lib, kind, form, loc, mem, view, box, ret, panicked, rws,
                   orig, logical, mutated, atBox>>

Declare(tr) ==
    /\ Usable("handle")
    /\ tr \in Caps(kind)
    /\ tr \in Impls(Ty)
    /\ handle' = [handle EXCEPT
                    !.vtable[tr] = lifetime_erase_trait_vtable(loc, tr, Ty)]
    /\ declared' = declared \cup {tr}
    /\ redecl' = (tr \in declared)
    /\ UNCHANGED <<lib, kind, form, loc, mem, view, box, ret, panicked, rws,
                   orig, logical, mutated, atBox>>

set_buf  == Declare("BufRead")
set_seek == Declare("Seek")
\* slip: the pointer is taken from a reference to the reference, so the
\* vtable is that of the reference type
set_any_ref ==
    /\ Usable("handle")
    /\ "Any" \in Caps(kind)
    /\ "Any" \in Impls(Ty)
    /\ handle' = [handle EXCEPT
                    !.vtable["Any"] = lifetime_erase_trait_vtable(loc, "Any", "Ref")]
    /\ declared' = declared \cup {"Any"}
    /\ redecl' = ("Any" \in declared)
    /\ UNCHANGED <<lib, kind, form, loc, mem, view, box, ret, panicked, rws,
                   orig, logical, mutated, atBox>>

set_any  == Declare("Any")

(***************************************************************************)
(* Moves of the handle, views, boxes, unwrapping.                          *)
(***************************************************************************)
\* a Rust move of the handle to another place: a bitwise copy
Move ==
    \E a \in Stack \ {loc} :
        /\ Usable("handle")
        /\ loc' = a
        /\ mem' = [mem EXCEPT ![a] = mem[loc], ![loc] = Dead]
        /\ redecl' = FALSE
        /\ UNCHANGED <<lib, kind, form, handle, view, box, ret, panicked, rws,
                       declared, orig, logical, mutated, atBox>>

\* slip: the view's table is built without the Any slot's content
Reader_as_mut_partial ==
    /\ Usable("handle")
    /\ view' = [inner  |-> Reader_as_read_mut,
                vtable |-> [handle.vtable EXCEPT !["Any"] = None]]
    /\ redecl' = FALSE
    /\ UNCHANGED <<lib, kind, form, loc, mem, handle, box, ret, panicked, rws,
                   declared, orig, logical, mutated, atBox>>

Reader_as_mut ==
    /\ Usable("handle")
    /\ view' = [inner |-> Reader_as_read_mut, vtable |-> handle.vtable]
    /\ redecl' = FALSE
    /\ UNCHANGED <<lib, kind, form, loc, mem, handle, box, ret, panicked, rws,
                   declared, orig, logical, mutated, atBox>>

\* slip: the view of a box starts from an empty table
ReaderBox_as_mut_empty ==
    /\ Usable("box")
    /\ view' = [vtable |-> [c \in Caps(kind) |-> None],
                inner |-> ReaderBox_as_read_mut]
    /\ redecl' = FALSE
    /\ UNCHANGED <<lib, kind, form, loc, mem, handle, box, ret, panicked, rws,
                   declared, orig, logical, mutated, atBox>>

ReaderBox_as_mut ==
    /\ Usable("box")
    /\ view' = [vtable |-> box.vtable, inner |-> ReaderBox_as_read_mut]
    /\ redecl' = FALSE
    /\ UNCHANGED <<lib, kind, form, loc, mem, handle, box, ret, panicked, rws,
                   declared, orig, logical, mutated, atBox>>

\* the end of a view's borrow
DropView ==
    /\ Usable("view")
    /\ view' = None
    /\ redecl' = FALSE
    /\ UNCHANGED <<lib, kind, form, loc, mem, handle, box, ret, panicked, rws,
                   declared, orig, logical, mutated, atBox>>

\* slip: the box is made from the stored pointer, not from the pointer to
\* the new allocation
Reader_into_boxed_stale ==
    /\ Usable("handle")
    /\ LET ptr == HeapAddr
       IN  /\ mem' = [mem EXCEPT ![ptr] = mem[loc], ![loc] = Dead]
           /\ loc' = ptr
           /\ box' = [inner  |-> handle.io,
                      vtable |-> handle.vtable]
    /\ handle' = None
    /\ form' = "boxed"
    /\ atBox' = mutated
    /\ redecl' = FALSE
    /\ UNCHANGED <<lib, kind, view, ret, panicked, rws, declared, orig, logical,
                   mutated>>

Reader_into_boxed ==
    /\ Usable("handle")
    /\ LET ptr == HeapAddr
       IN  /\ mem' = [mem EXCEPT ![ptr] = mem[loc], ![loc] = Dead]
           /\ loc' = ptr
           /\ box' = [inner  |-> with_metadata_of_on_stable(ptr, handle.io),
                      vtable |-> handle.vtable]
    /\ handle' = None
    /\ form' = "boxed"
    /\ atBox' = mutated
    /\ redecl' = FALSE
    /\ UNCHANGED <<lib, kind, view, ret, panicked, rws, declared, orig, logical,
                   mutated>>

\* slip: the value is read back through the pointer stored by new
Reader_into_inner_stale ==
    /\ Usable("handle")
    /\ ret' = mem[handle.io.addr]
    /\ mem' = [mem EXCEPT ![loc] = Dead]
    /\ handle' = None
    /\ form' = "inner"
    /\ redecl' = FALSE
    /\ UNCHANGED <<lib, kind, loc, view, box, panicked, rws, declared, orig,
                   logical, mutated, atBox>>

Reader_into_inner ==
    /\ Usable("handle")
    /\ ret' = mem[loc]
    /\ mem' = [mem EXCEPT ![loc] = Dead]
    /\ handle' = None
    /\ form' = "inner"
    /\ redecl' = FALSE
    /\ UNCHANGED <<lib, kind, loc, view, box, panicked, rws, declared, orig,
                   logical, mutated, atBox>>

(***************************************************************************)
(* Stream operations made through an accessor of object t.                 *)
(***************************************************************************)
\* Running an implementation on memory that holds no value of its type is
\* undefined behaviour: the call may crash or return, the memory as it was.
Call(t, tr, method, arg) ==
    /\ Usable(t)
    /\ tr \in Caps(kind) \cup {Mandatory(kind)}
    /\ GetMut(t, tr) # None
    /\ LET acc == GetMut(t, tr)
           r   == Invoke(acc.vt, method, mem[acc.addr], arg)
       IN  IF mem[acc.addr].ty = acc.vt.ty
           THEN /\ r.s.pos <= MaxPos
                /\ mem' = [mem EXCEPT ![acc.addr] = r.s]
                /\ panicked' = r.panic
           ELSE /\ mem' = mem
                /\ panicked' \in BOOLEAN
    /\ logical' = Invoke([trait |-> tr, ty |-> Ty], method, logical, arg).s
    /\ mutated' = TRUE
    /\ redecl' = FALSE
    /\ UNCHANGED <<lib, kind, form, loc, handle, view, box, ret, rws, declared,
                   orig, atBox>>

Read    == \E t \in Targets, n \in 0..MaxLen : Call(t, "Read", "read", n)
Write   == \E t \in Targets, buf \in WriteBufs : Call(t, "Write", "write", buf)
Seek    == \E t \in Targets, sf \in SeekArgs : Call(t, "Seek", "seek", sf)
Consume == \E t \in Targets, amt \in 0..MaxLen :
               Call(t, "BufRead", "consume", amt)

Next ==
    \/ set_buf \/ set_seek \/ set_any
    \/ Move \/ Reader_as_mut \/ ReaderBox_as_mut \/ DropView
    \/ Reader_into_boxed \/ Reader_into_inner
    \/ Read \/ Write \/ Seek \/ Consume

Spec == Init /\ [][Next]_vars


(***************************************************************************)
(* read_with_skip(file, skip, buffer) of tests/motivation.rs, called with a *)
(* handle (moved into the call) or with a view (as tests/boxed.rs does).   *)
(* Its read_to_end is modelled by this repository's read_to_end            *)
(* (src/src/impls_alloc.rs).                                               *)
(***************************************************************************)
\* Box::new([0; 1 << 14])
SkipBufLen == 16384
\* guard.buf.reserve(32)
ReserveLen == 32

SkipArgs == 0..(MaxLen + 1) \cup {I64Max, I64Max + 1, U64 - 1}
OutBufs == {<<>>, <<9>>}

\* `x as i64` and i64::try_from(x).unwrap_or(i64::MAX) of a u64
as_i64(x) == IF x > I64Max THEN x - U64 ELSE x
try_i64_or_max(x) == IF x > I64Max THEN I64Max ELSE x

\* the call: the arguments are bound, a handle moves into the parameter
rws_call ==
    \E t \in {"handle", "view"}, skip \in SkipArgs, buf0 \in OutBufs :
        /\ Usable(t)
        /\ kind = "Reader"
        /\ rws' = [RwsIdle EXCEPT !.pc = "entry", !.t = t, !.skip0 = skip,
                                  !.skip = skip, !.buf0 = buf0, !.buffer = buf0]
        /\ IF t = "handle"
           THEN \E a \in Stack :
                   /\ loc' = a
                   /\ mem' = [[mem EXCEPT ![loc] = Dead] EXCEPT ![a] = mem[loc]]
           ELSE UNCHANGED <<loc, mem>>
        /\ redecl' = FALSE
        /\ UNCHANGED <<lib, kind, form, handle, view, box, ret, panicked,
                       declared, orig, logical, mutated, atBox>>

\* if let Some(seekable) = file.as_seek_mut()
rws_entry ==
    /\ rws.pc = "entry"
    /\ LET seekable == GetMut(rws.t, "Seek")
       IN  rws' = [rws EXCEPT !.seekable = seekable,
                              !.pc = IF seekable # None THEN "seek_loop"
                                                        ELSE "read_loop"]
    /\ UNCHANGED <<lib, kind, form, loc, mem, handle, view, box, ret, panicked,
                   declared, redecl, orig, logical, mutated, atBox>>

\* slip: the remaining skip is counted down by one, not by the offset
rws_seek_loop_by_one ==
    /\ rws.pc = "seek_loop"
    /\ IF rws.skip > 0
       THEN LET sf == [from |-> "Current", n |-> as_i64(rws.skip)]
                r  == Invoke(rws.seekable.vt, "seek", mem[rws.seekable.addr], sf)
            IN  /\ mem' = [mem EXCEPT ![rws.seekable.addr] = r.s]
                /\ logical' = Invoke([trait |-> "Seek", ty |-> Ty], "seek",
                                     logical, sf).s
                /\ mutated' = TRUE
                /\ rws' = IF r.err # ""
                          THEN [rws EXCEPT !.pc = "done", !.res = r.err]
                          ELSE [rws EXCEPT !.num_seek = @ + 1,
                                           !.skip = @ - 1]
       ELSE /\ rws' = [rws EXCEPT !.pc = "read_to_end"]
            /\ UNCHANGED <<mem, logical, mutated>>
    /\ UNCHANGED <<lib, kind, form, loc, handle, view, box, ret, panicked,
                   declared, redecl, orig, atBox>>

\* while skip > 0 { seekable.seek(SeekFrom::Current(skip as i64))?; ... }
rws_seek_loop ==
    /\ rws.pc = "seek_loop"
    /\ IF rws.skip > 0
       THEN LET offset == try_i64_or_max(rws.skip)
                sf == [from |-> "Current", n |-> as_i64(rws.skip)]
                r  == Invoke(rws.seekable.vt, "seek", mem[rws.seekable.addr], sf)
            IN  /\ mem' = [mem EXCEPT ![rws.seekable.addr] = r.s]
                /\ logical' = Invoke([trait |-> "Seek", ty |-> Ty], "seek",
                                     logical, sf).s
                /\ mutated' = TRUE
                /\ rws' = IF r.err # ""
                          THEN [rws EXCEPT !.pc = "done", !.res = r.err]
                          ELSE [rws EXCEPT !.num_seek = @ + 1,
                                           !.skip = @ - as_u64(offset)]
       ELSE /\ rws' = [rws EXCEPT !.pc = "read_to_end"]
            /\ UNCHANGED <<mem, logical, mutated>>
    /\ UNCHANGED <<lib, kind, form, loc, handle, view, box, ret, panicked,
                   declared, redecl, orig, atBox>>

\* while skip > 0 { file.as_read_mut().read(&mut buffer[..exact_read])?; ... }
rws_read_loop ==
    /\ rws.pc = "read_loop"
    /\ IF rws.skip > 0
       THEN LET bound      == rws.skip
                exact_read == Min(SkipBufLen, bound)
                acc        == GetMut(rws.t, "Read")
                r          == Invoke(acc.vt, "read", mem[acc.addr], exact_read)
                actual     == r.n
            IN  /\ mem' = [mem EXCEPT ![acc.addr] = r.s]
                /\ logical' = Invoke([trait |-> "Read", ty |-> Ty], "read",
                                     logical, exact_read).s
                /\ mutated' = TRUE
                /\ rws' = IF actual = 0
                          THEN [rws EXCEPT !.num_read = @ + 1, !.pc = "done",
                                           !.res = "UnexpectedEof"]
                          ELSE [rws EXCEPT !.num_read = @ + 1,
                                           !.skip = @ - actual]
       ELSE /\ rws' = [rws EXCEPT !.pc = "read_to_end"]
            /\ UNCHANGED <<mem, logical, mutated>>
    /\ UNCHANGED <<lib, kind, form, loc, handle, view, box, ret, panicked,
                   declared, redecl, orig, atBox>>

\* one round of read_to_end's loop: read into the spare room of buffer
rws_read_to_end ==
    /\ rws.pc = "read_to_end"
    /\ LET spare == ReserveLen - ((Len(rws.buffer) - Len(rws.buf0)) % ReserveLen)
           acc   == GetMut(rws.t, "Read")
           r     == Invoke(acc.vt, "read", mem[acc.addr], spare)
       IN  /\ mem' = [mem EXCEPT ![acc.addr] = r.s]
           /\ logical' = Invoke([trait |-> "Read", ty |-> Ty], "read",
                                logical, spare).s
           /\ rws' = IF r.n = 0
                     THEN [rws EXCEPT !.num_read = @ + 1, !.pc = "done",
                                      !.res = "Ok"]
                     ELSE [rws EXCEPT !.num_read = @ + 1,
                                      !.buffer = @ \o r.out]
    /\ mutated' = TRUE
    /\ UNCHANGED <<lib, kind, form, loc, handle, view, box, ret, panicked,
                   declared, redecl, orig, atBox>>

InitSkip == Init /\ kind = "Reader"

NextSkip ==
    \/ set_seek \/ set_buf \/ Move
    \/ Reader_as_mut \/ ReaderBox_as_mut \/ Reader_into_boxed
    \/ rws_call \/ rws_entry \/ rws_seek_loop \/ rws_read_loop
    \/ rws_read_to_end

SpecSkip == InitSkip /\ [][NextSkip]_vars

(***************************************************************************)
(* The baseline library (src/src).  Its operations run on stream and error *)
(* values of their own, with no handle around them.                        *)
(***************************************************************************)
\* no handle exists
NoHandle ==
    /\ kind = "" /\ form = "none" /\ loc = HeapAddr
    /\ mem = [a \in Addrs |-> Dead]
    /\ handle = None /\ view = None /\ box = None /\ ret = Dead
    /\ panicked = FALSE /\ rws = RwsIdle
    /\ declared = {} /\ redecl = FALSE /\ orig = Dead /\ logical = Dead
    /\ mutated = FALSE /\ atBox = FALSE

(***************************************************************************)
(* The opaque Error.  Built with the host error type (feature std) it      *)
(* wraps a std::io::Error; built without, it holds an ErrorKind.           *)
(***************************************************************************)
\* enum ErrorKind
ErrorKinds == {"WriteZero", "UnexpectedEof"}
\* a host error: its kind and what else it carries (the bare kind, an OS
\* code, a custom payload)
HostKinds == {"WriteZero", "UnexpectedEof", "Interrupted", "WouldBlock",
              "InvalidData", "Other"}
HostReprs == {"simple", "os", "custom"}
HostErrors == {[kind |-> k, repr |-> r] : k \in HostKinds, r \in HostReprs}
\* io::Error::from(kind)
io_Error_from(k) == [kind |-> k, repr |-> "simple"]

\* slip: only the kind of the host error is kept
Error_from_io_kind(err) ==
    [inner |-> [tag |-> "Error", err |-> io_Error_from(err.kind)]]

\* impl From<io::Error> for Error, impl From<Error> for std::io::Error
Error_from_io(err) == [inner |-> [tag |-> "Error", err |-> err]]
io_from_Error(err) == err.inner.err

is_interrupted_impl_std(e) == e.inner.err.kind = "Interrupted"
is_interrupted_impl_nostd(e) == FALSE

from_kind_impl_std(k) ==
    LET host == CASE k = "WriteZero"     -> "WriteZero"
                  [] k = "UnexpectedEof" -> "UnexpectedEof"
    IN  Error_from_io(io_Error_from(host))
from_kind_impl_nostd(k) == [inner |-> [tag |-> "Kind", kind |-> k]]

\* Error::is_interrupted and Error::from(kind), std being the feature
Error_is_interrupted(std, e) ==
    IF std THEN is_interrupted_impl_std(e) ELSE is_interrupted_impl_nostd(e)
Error_from_kind(std, k) ==
    IF std THEN from_kind_impl_std(k) ELSE from_kind_impl_nostd(k)

Ok(n) == [tag |-> "Ok", n |-> n]
Err(e) == [tag |-> "Err", e |-> e]

(***************************************************************************)
(* Read::read_exact over a reader that may give fewer bytes than asked     *)
(* for and may fail: with std an AllowStd around a host reader, whose      *)
(* errors are wrapped; without, an implementor whose errors are made from  *)
(* an ErrorKind.  lib holds the reader's remaining bytes src, the caller's *)
(* buffer dst, the offset filled at which the local slice buf starts, and  *)
(* as history the bytes src0 the reader started with, the number of read   *)
(* calls, the interrupted ones among them and the last call's result.      *)
(***************************************************************************)
\* most interrupted calls in one run
MaxIntr == 2

\* the errors a read or write call may fail with
CallErrors(std) ==
    IF std
    THEN {Error_from_io(h) : h \in {io_Error_from("Interrupted"),
                                     io_Error_from("WouldBlock"),
                                     [kind |-> "Other", repr |-> "os"]}}
    ELSE {Error_from_kind(FALSE, k) : k \in ErrorKinds}

\* what one read call into a buffer of n bytes may return
ReadResults(std, src, n) ==
    {Ok(k) : k \in (IF src = <<>> \/ n = 0 THEN {0} ELSE 1..Min(Len(src), n))}
    \cup {Err(e) : e \in CallErrors(std)}

\* the reader's side of a read call that returned r
Reader_read(l, r) ==
    LET n == IF r.tag = "Ok" THEN r.n ELSE 0
    IN  [l EXCEPT !.src = SubSeq(@, n + 1, Len(@)),
                  !.dst = [i \in 1..Len(@) |->
                             IF i > l.filled /\ i <= l.filled + n
                             THEN l.src[i - l.filled] ELSE @[i]],
                  !.calls = @ + 1,
                  !.intr = IF r.tag = "Err" /\ Error_is_interrupted(l.std, r.e)
                           THEN @ + 1 ELSE @,
                  !.last = r]

\* slip: after an interrupted call the buffer is filled from its start again
read_exact_match_restart(l, r) ==
    CASE r.tag = "Ok" /\ r.n = 0 ->
             [l EXCEPT !.pc = "done",
                       !.res = Err(Error_from_kind(l.std, "UnexpectedEof"))]
      [] r.tag = "Ok" /\ r.n > 0 -> [l EXCEPT !.filled = @ + r.n]
      [] r.tag = "Err" /\ Error_is_interrupted(l.std, r.e) ->
             [l EXCEPT !.filled = 0]
      [] OTHER -> [l EXCEPT !.pc = "done", !.res = Err(r.e)]

\* slip: a successful read does not move the start of buf
read_exact_match_stall(l, r) ==
    CASE r.tag = "Ok" /\ r.n = 0 ->
             [l EXCEPT !.pc = "done",
                       !.res = Err(Error_from_kind(l.std, "UnexpectedEof"))]
      [] r.tag = "Ok" /\ r.n > 0 -> l
      [] r.tag = "Err" /\ Error_is_interrupted(l.std, r.e) -> l
      [] OTHER -> [l EXCEPT !.pc = "done", !.res = Err(r.e)]

\* the match on the result of self.read(buf)
read_exact_match(l, r) ==
    CASE r.tag = "Ok" /\ r.n = 0 ->
             [l EXCEPT !.pc = "done",
                       !.res = Err(Error_from_kind(l.std, "UnexpectedEof"))]
      [] r.tag = "Ok" /\ r.n > 0 -> [l EXCEPT !.filled = @ + r.n]
      [] r.tag = "Err" /\ Error_is_interrupted(l.std, r.e) -> l
      [] OTHER -> [l EXCEPT !.pc = "done", !.res = Err(r.e)]

\* one round of while !buf.is_empty() { match self.read(buf) ... }
read_exact ==
    /\ lib.op = "read_exact" /\ lib.pc = "loop"
    /\ LET buf == Len(lib.dst) - lib.filled
       IN  IF buf = 0
           THEN lib' = [lib EXCEPT !.pc = "done", !.res = Ok(0)]
           ELSE \E r \in ReadResults(lib.std, lib.src, buf) :
                   /\ (r.tag = "Err" /\ Error_is_interrupted(lib.std, r.e))
                          => lib.intr < MaxIntr
                   /\ lib' = read_exact_match(Reader_read(lib, r), r)
    /\ UNCHANGED hvars

(***************************************************************************)
(* Write::write_all over a writer that may accept fewer bytes than offered *)
(* and may fail.  lib holds the caller's bytes data, the offset written at *)
(* which the local slice buf starts, the bytes sink the writer has         *)
(* accepted, and as history the slice offered to the last call, the number *)
(* of calls, the interrupted ones among them and the last call's result.   *)
(***************************************************************************)
\* what one write call offered n bytes may return
WriteResults(std, n) == {Ok(k) : k \in 0..n} \cup {Err(e) : e \in CallErrors(std)}

\* the writer's side of a write call offered buf that returned r
Writer_write(l, buf, r) ==
    [l EXCEPT !.sink = @ \o SubSeq(buf, 1, IF r.tag = "Ok" THEN r.n ELSE 0),
              !.offered = buf,
              !.calls = @ + 1,
              !.intr = IF r.tag = "Err" /\ Error_is_interrupted(l.std, r.e)
                       THEN @ + 1 ELSE @,
              !.last = r]

\* slip: after an interrupted call the bytes are sent from the start again
write_all_match_resend(l, r) ==
    CASE r.tag = "Ok" /\ r.n = 0 ->
             [l EXCEPT !.pc = "done",
                       !.res = Err(Error_from_kind(l.std, "WriteZero"))]
      [] r.tag = "Ok" /\ r.n > 0 -> [l EXCEPT !.written = @ + r.n]
      [] r.tag = "Err" /\ Error_is_interrupted(l.std, r.e) ->
             [l EXCEPT !.written = 0]
      [] OTHER -> [l EXCEPT !.pc = "done", !.res = Err(r.e)]

\* the match on the result of self.write(buf)
write_all_match(l, r) ==
    CASE r.tag = "Ok" /\ r.n = 0 ->
             [l EXCEPT !.pc = "done",
                       !.res = Err(Error_from_kind(l.std, "WriteZero"))]
      [] r.tag = "Ok" /\ r.n > 0 -> [l EXCEPT !.written = @ + r.n]
      [] r.tag = "Err" /\ Error_is_interrupted(l.std, r.e) -> l
      [] OTHER -> [l EXCEPT !.pc = "done", !.res = Err(r.e)]

\* one round of while !buf.is_empty() { match self.write(buf) ... }
write_all ==
    /\ lib.op = "write_all" /\ lib.pc = "loop"
    /\ LET buf == SubSeq(lib.data, lib.written + 1, Len(lib.data))
       IN  IF buf = <<>>
           THEN lib' = [lib EXCEPT !.pc = "done", !.res = Ok(0)]
           ELSE \E r \in WriteResults(lib.std, Len(buf)) :
                   /\ (r.tag = "Err" /\ Error_is_interrupted(lib.std, r.e))
                          => lib.intr < MaxIntr
                   /\ lib' = write_all_match(Writer_write(lib, buf, r), r)
    /\ UNCHANGED hvars

(***************************************************************************)
(* A Cursor over a byte buffer, placed by set_position and then called:    *)
(* one write, one seek, or reads one after another, and one more call      *)
(* after a seek that failed.  lib holds the cursor s, and as history the   *)
(* cursor s0 before the last call, that call, its result r, the position   *)
(* p0 the cursor was placed at, all the bytes got by the reads so far and, *)
(* in prev, the failed seek the last call came after.                      *)
(***************************************************************************)
\* the positions a cursor is placed at
CursorPositions == 0..MaxPos \cup {I64Max, I64Max + 1, U64 - 1}

\* the arguments method m is called with
CursorArgs(m) ==
    CASE m = "read"  -> 0..MaxLen
      [] m = "write" -> WriteBufs
      [] m = "seek"  ->
             {[from |-> "Start", n |-> n] : n \in 0..(U64 - 1)}
             \cup {[from |-> f, n |-> n] :
                      f \in {"End", "Current"}, n \in I64Min..I64Max}
      [] m = "stream_position" -> {0}

\* Seek::stream_position of Cursor
Cursor_stream_position(s) ==
    [n |-> s.pos, out |-> <<>>, s |-> s, err |-> "", panic |-> FALSE]

\* a call of the cursor: the first one, a read after a read, or any call
\* after a seek that failed (lib.prev then keeps that seek)
Cursor_call ==
    /\ lib.op = "cursor"
    /\ \E m \in {"read", "write", "seek", "stream_position"} :
        \E arg \in CursorArgs(m) :
          /\ IF lib.call = None THEN m # "stream_position"
             ELSE IF lib.call.m = "seek" /\ lib.r.err # "" /\ lib.prev = None
             THEN m = "seek" => arg.from = "Current" /\ arg.n \in {-1, 0, 1}
             ELSE lib.call.m = "read" /\ m = "read" /\ lib.prev = None
          /\ LET r == CASE m = "read"  -> Cursor_read(lib.s, arg)
                        [] m = "write" -> Cursor_write(lib.s, arg)
                        [] m = "seek"  -> Cursor_seek(lib.s, arg)
                        [] m = "stream_position" -> Cursor_stream_position(lib.s)
             IN  lib' = [lib EXCEPT !.s0 = lib.s, !.s = r.s,
                                    !.call = [m |-> m, arg |-> arg],
                                    !.r = r, !.got = @ \o r.out,
                                    !.prev = IF lib.call # None
                                                /\ lib.call.m = "seek"
                                             THEN [s0 |-> lib.s0, call |-> lib.call]
                                             ELSE None]
    /\ UNCHANGED hvars

(***************************************************************************)
(* Take: a reader inner behind a limit.  lib holds the limit and inner's   *)
(* remaining bytes src, and as history the limit n0 the Take was made      *)
(* with, the limit l0 before the last call, that call, the number of bytes *)
(* it asked of inner, whether it called inner at all, its result r and the *)
(* sum of the counts returned by all read calls.  A Take used as a         *)
(* buffered reader (take_buf) has consume called on it too; inner is then  *)
(* a byte slice, and panic says that its consume has panicked.             *)
(***************************************************************************)
\* usize::try_from(limit).unwrap_or(len).min(len), usize being as wide as u64
cap_min(limit, len) == Min(IF limit < U64 THEN limit ELSE len, len)

\* slip: the inner reader is handed the whole of buf
Take_read_uncapped(l, n) ==
    IF l.limit = 0
    THEN {[l EXCEPT !.l0 = l.limit, !.call = [m |-> "read", arg |-> n],
                    !.asked = 0, !.called = FALSE, !.r = Ok(0)]}
    ELSE {[l EXCEPT !.l0 = l.limit, !.call = [m |-> "read", arg |-> n],
                    !.asked = n, !.called = TRUE, !.r = r,
                    !.src = IF r.tag = "Ok" THEN SubSeq(@, r.n + 1, Len(@))
                                            ELSE @,
                    !.limit = IF r.tag = "Ok"
                              THEN (IF @ >= r.n THEN @ - r.n ELSE 0) ELSE @,
                    !.sum = IF r.tag = "Ok" THEN @ + r.n ELSE @] :
             r \in ReadResults(l.std, l.src, n)}

\* impl Read for Take: the states a read into a buffer of n bytes may leave
Take_read(l, n) ==
    IF l.limit = 0
    THEN {[l EXCEPT !.l0 = l.limit, !.call = [m |-> "read", arg |-> n],
                    !.asked = 0, !.called = FALSE, !.r = Ok(0)]}
    ELSE LET len == cap_min(l.limit, n)
         IN  {[l EXCEPT !.l0 = l.limit, !.call = [m |-> "read", arg |-> n],
                        !.asked = len, !.called = TRUE, !.r = r,
                        !.src = IF r.tag = "Ok" THEN SubSeq(@, r.n + 1, Len(@))
                                                ELSE @,
                        !.limit = IF r.tag = "Ok"
                                  THEN (IF @ >= r.n THEN @ - r.n ELSE 0) ELSE @,
                        !.sum = IF r.tag = "Ok" THEN @ + r.n ELSE @] :
                 r \in ReadResults(l.std, l.src, len)}

\* impl BufRead for Take, fill_buf: inner's view is all it has left
Take_fill_buf(l) ==
    IF l.limit = 0
    THEN [l EXCEPT !.l0 = l.limit, !.call = [m |-> "fill_buf", arg |-> 0],
                   !.asked = 0, !.called = FALSE, !.r = [tag |-> "Ok", buf |-> <<>>]]
    ELSE LET buf == l.src
             len == cap_min(l.limit, Len(buf))
         IN  [l EXCEPT !.l0 = l.limit, !.call = [m |-> "fill_buf", arg |-> 0],
                       !.asked = 0, !.called = TRUE,
                       !.r = [tag |-> "Ok", buf |-> SubSeq(buf, 1, len)]]

\* slip: the amount is taken as the caller gave it
Take_consume_uncapped(l, amt) ==
    [l EXCEPT !.l0 = l.limit, !.call = [m |-> "consume", arg |-> amt],
              !.asked = amt, !.called = TRUE,
              !.limit = (@ - amt) % U64,
              !.r = [tag |-> "Ok", buf |-> <<>>],
              !.src = SubSeq(@, amt + 1, Len(@)),
              !.panic = amt > Len(l.src)]

\* impl BufRead for Take, consume: the limit goes down before inner's
\* consume runs, which for a byte slice panics on more than it has
Take_consume(l, amt) ==
    LET capped == cap_min(l.limit, amt)
    IN  [l EXCEPT !.l0 = l.limit, !.call = [m |-> "consume", arg |-> amt],
                  !.asked = capped, !.called = TRUE,
                  !.limit = (@ - capped) % U64,
                  !.r = [tag |-> "Ok", buf |-> <<>>],
                  !.src = SubSeq(@, capped + 1, Len(@)),
                  !.panic = capped > Len(l.src)]

\* a call of a Take, which is used as a reader only (take) or as a buffered
\* reader (take_buf)
Take_call ==
    /\ lib.op \in {"take", "take_buf"}
    /\ \/ \E n \in 0..MaxLen : lib' \in Take_read(lib, n)
       \/ lib' = Take_fill_buf(lib)
       \/ /\ lib.op = "take_buf"
          /\ \E amt \in 0..(MaxLen + 1) \cup {U64 - 1} :
                lib' = Take_consume(lib, amt)
    /\ lib.op = "take_buf" => ~lib.panic
    /\ UNCHANGED hvars

(***************************************************************************)
(* An Error is made, from an ErrorKind or, with std, from a host error;    *)
(* it is asked is_interrupted and, with std, converted back.  lib holds    *)
(* what the error was made of, the error e, the answer and the host error  *)
(* that came back.                                                         *)
(***************************************************************************)
Error_make ==
    /\ lib.op = "error"
    /\ \/ \E k \in ErrorKinds :
            LET e == Error_from_kind(lib.std, k)
            IN  lib' = [lib EXCEPT !.of = [kind |-> k], !.e = e,
                          !.interrupted = Error_is_interrupted(lib.std, e),
                          !.back = IF lib.std THEN io_from_Error(e) ELSE None]
       \/ \E h \in HostErrors :
            /\ lib.std
            /\ LET e == Error_from_io(h)
               IN  lib' = [lib EXCEPT !.of = [host |-> h], !.e = e,
                             !.interrupted = Error_is_interrupted(lib.std, e),
                             !.back = io_from_Error(e)]
    /\ UNCHANGED hvars

(***************************************************************************)
(* read_to_end(r, buf) of impls_alloc.rs.  lib holds the reader's          *)
(* remaining bytes src, the vector buf with its capacity cap, the guard's  *)
(* len and start_len, and as history the reader's bytes src0 and the       *)
(* vector buf0 at the call, the interrupted calls and the last call's      *)
(* result.  When the function returns the guard is dropped, which          *)
(* truncates buf to len.                                                   *)
(***************************************************************************)
\* slip: the function returns without the guard's truncation
read_to_end_match_no_guard(l, r) ==
    CASE r.tag = "Ok" /\ r.n = 0 ->
             [l EXCEPT !.pc = "done", !.res = Ok(l.len - l.start_len)]
      [] r.tag = "Ok" /\ r.n > 0 -> [l EXCEPT !.len = @ + r.n]
      [] r.tag = "Err" /\ Error_is_interrupted(l.std, r.e) -> l
      [] OTHER -> [l EXCEPT !.pc = "done", !.res = Err(r.e)]

\* the match on the result of r.read(buf), and Guard::drop on return
read_to_end_match(l, r) ==
    CASE r.tag = "Ok" /\ r.n = 0 ->
             [l EXCEPT !.pc = "done", !.res = Ok(l.len - l.start_len),
                       !.buf = SubSeq(@, 1, l.len)]
      [] r.tag = "Ok" /\ r.n > 0 -> [l EXCEPT !.len = @ + r.n]
      [] r.tag = "Err" /\ Error_is_interrupted(l.std, r.e) -> l
      [] OTHER -> [l EXCEPT !.pc = "done", !.res = Err(r.e),
                            !.buf = SubSeq(@, 1, l.len)]

\* one round of the loop: room is ensured (reserve grows the capacity to the
\* larger of its double and what is asked for, resize pads buf with zeros up
\* to it), then the reader is called with buf[len..]
read_to_end ==
    /\ lib.op \in {"read_to_end", "read_to_string"} /\ lib.pc = "loop"
    /\ LET full == Len(lib.buf) = lib.len
           cap  == IF full /\ lib.cap - lib.len < ReserveLen
                   THEN (IF 2 * lib.cap > lib.len + ReserveLen
                         THEN 2 * lib.cap ELSE lib.len + ReserveLen)
                   ELSE lib.cap
           vec  == IF full THEN lib.buf \o Zeros(cap - Len(lib.buf))
                           ELSE lib.buf
       IN  \E r \in ReadResults(lib.std, lib.src, Len(vec) - lib.len) :
              /\ (r.tag = "Err" /\ Error_is_interrupted(lib.std, r.e))
                     => lib.intr < MaxIntr
              /\ LET n == IF r.tag = "Ok" THEN r.n ELSE 0
                     read == [lib EXCEPT
                                !.cap = cap,
                                !.buf = [i \in 1..Len(vec) |->
                                           IF i > lib.len /\ i <= lib.len + n
                                           THEN lib.src[i - lib.len] ELSE vec[i]],
                                !.src = SubSeq(@, n + 1, Len(@)),
                                !.intr = IF r.tag = "Err"
                                            /\ Error_is_interrupted(lib.std, r.e)
                                         THEN @ + 1 ELSE @,
                                !.last = r]
                 IN  lib' = read_to_end_match(read, r)
    /\ UNCHANGED hvars

(***************************************************************************)
(* read_to_string and read_line of impls_alloc.rs, built with alloc and    *)
(* without std: append_to_string runs read_to_end, or read_until with the  *)
(* byte '\n', on the string's vector and then checks the bytes appended.   *)
(* For read_line lib holds read_until's count read; fill_buf may show any  *)
(* part of what the reader has left.  ret is what append_to_string         *)
(* returns.  read_until is also called by itself, in either build, with a  *)
(* delimiter byte, and then a second time on the same reader and vector:   *)
(* all0 and out0 are the reader's bytes and the vector before the first    *)
(* call, src0 and buf0 those before the call that runs, first the first    *)
(* call's result.                                                          *)
(***************************************************************************)
\* core::str::from_utf8: whether v is well-formed UTF-8, and the characters
\* (code points) it then spells
RECURSIVE from_utf8(_)
from_utf8(v) ==
    LET n      == Len(v)
        cont(i) == i <= n /\ v[i] >= 128 /\ v[i] <= 191
        in(i, lo, hi) == i <= n /\ v[i] >= lo /\ v[i] <= hi
        size   == CASE v[1] <= 127 -> 1
                    [] in(1, 194, 223) /\ cont(2) -> 2
                    [] v[1] = 224 /\ in(2, 160, 191) /\ cont(3) -> 3
                    [] in(1, 225, 236) /\ cont(2) /\ cont(3) -> 3
                    [] v[1] = 237 /\ in(2, 128, 159) /\ cont(3) -> 3
                    [] in(1, 238, 239) /\ cont(2) /\ cont(3) -> 3
                    [] v[1] = 240 /\ in(2, 144, 191) /\ cont(3) /\ cont(4) -> 4
                    [] in(1, 241, 243) /\ cont(2) /\ cont(3) /\ cont(4) -> 4
                    [] v[1] = 244 /\ in(2, 128, 143) /\ cont(3) /\ cont(4) -> 4
                    [] OTHER -> 0
        char   == CASE size = 1 -> v[1]
                    [] size = 2 -> (v[1] - 192) * 64 + (v[2] - 128)
                    [] size = 3 -> (v[1] - 224) * 4096 + (v[2] - 128) * 64
                                   + (v[3] - 128)
                    [] size = 4 -> (v[1] - 240) * 262144 + (v[2] - 128) * 4096
                                   + (v[3] - 128) * 64 + (v[4] - 128)
                    [] OTHER -> 0
    IN  IF n = 0 THEN [ok |-> TRUE, chars |-> <<>>]
        ELSE IF size = 0 THEN [ok |-> FALSE, chars |-> <<>>]
        ELSE LET rest == from_utf8(SubSeq(v, size + 1, n))
             IN  [ok |-> rest.ok, chars |-> <<char>> \o rest.chars]

\* the bytes of the readers: 'H', '\n', the two bytes of U+00E9, and 0xFE
TextBytes == {72, 10, 195, 169, 254}
TextStreams == UNION {[1..n -> TextBytes] : n \in 0..MaxLen}

\* the bytes read_until looks for
Delimiters == {10, 72}

\* slip: the last occurrence is taken
position_last(available, byte) ==
    LET found == {i \in 1..Len(available) : available[i] = byte}
    IN  IF found = {} THEN 0 ELSE CHOOSE i \in found : \A j \in found : i >= j

\* available.iter().position(|&b| b == byte): 0 for None, else Some(n) as n + 1
position(available, byte) ==
    LET found == {i \in 1..Len(available) : available[i] = byte}
    IN  IF found = {} THEN 0 ELSE CHOOSE i \in found : \A j \in found : i <= j

\* one round of read_until(r, byte, buf), byte being '\n' for read_line
read_until ==
    /\ lib.op \in {"read_line", "read_until"} /\ lib.pc = "loop"
    /\ \E r \in ReadResults(lib.std, lib.src, Len(lib.src)) :
          /\ (r.tag = "Err" /\ Error_is_interrupted(lib.std, r.e))
                 => lib.intr < MaxIntr
          /\ IF r.tag = "Err"
             THEN lib' = IF Error_is_interrupted(lib.std, r.e)
                         THEN [lib EXCEPT !.intr = @ + 1, !.last = r]
                         ELSE [lib EXCEPT !.pc = "done", !.res = r, !.last = r]
             ELSE LET available == SubSeq(lib.src, 1, r.n)
                      n     == position(available, lib.byte)
                      done  == n # 0
                      used  == IF done THEN n ELSE Len(available)
                  IN  lib' = [lib EXCEPT
                                !.buf = @ \o SubSeq(available, 1, used),
                                !.src = SubSeq(@, used + 1, Len(@)),
                                !.read = @ + used,
                                !.last = r,
                                !.pc = IF done \/ used = 0 THEN "done" ELSE "loop",
                                !.res = IF done \/ used = 0
                                        THEN Ok(lib.read + used) ELSE @]
    /\ UNCHANGED hvars

\* the caller reads the next segment from the same reader into the same
\* vector, as the tests do
read_until_again ==
    /\ lib.op = "read_until" /\ lib.pc = "done" /\ lib.res.tag = "Ok"
    /\ lib.round = 1
    /\ lib' = [lib EXCEPT !.pc = "loop", !.round = 2, !.res = None,
                          !.read = 0, !.src0 = lib.src, !.buf0 = lib.buf,
                          !.first = lib.res]
    /\ UNCHANGED hvars

\* slip: the result is passed on without the check of the appended bytes
append_to_string_unchecked ==
    /\ lib.op \in {"read_to_string", "read_line"} /\ lib.pc = "done"
    /\ lib' = [lib EXCEPT !.pc = "returned", !.ret = lib.res]
    /\ UNCHANGED hvars

\* append_to_string once its reader closure has returned lib.res
append_to_string ==
    /\ lib.op \in {"read_to_string", "read_line"} /\ lib.pc = "done"
    /\ LET guard_len == Len(lib.buf0)
           appended  == SubSeq(lib.buf, guard_len + 1, Len(lib.buf))
       IN  lib' = [lib EXCEPT
                     !.pc = "returned",
                     !.ret = IF ~from_utf8(appended).ok
                             THEN (IF lib.res.tag = "Ok"
                                   THEN Err(Error_from_kind(lib.std, "InvalidData"))
                                   ELSE lib.res)
                             ELSE lib.res]
    /\ UNCHANGED hvars

(***************************************************************************)
(* copy, which is stack_copy(read, write) of impls_always.rs.  The reader  *)
(* is any reader or a byte slice, the writer any writer or the Sink.  lib  *)
(* holds the reader's remaining bytes src, the count written, and in w the *)
(* state of the write_all call on &buffer[..len] with the bytes the writer *)
(* has accepted in all; as history the reader's bytes src0, the read calls *)
(* interrupted and the last read's result.                                 *)
(***************************************************************************)
\* const DEFAULT_STACK_BUFFER_SIZE
DEFAULT_STACK_BUFFER_SIZE == 512

\* what read.read(&mut buffer[..]) may return
Copy_read(l) ==
    IF l.reader = "slice"
    THEN {Ok(Slice_read(l.src, DEFAULT_STACK_BUFFER_SIZE).n)}
    ELSE ReadResults(l.std, l.src, DEFAULT_STACK_BUFFER_SIZE)

\* what write.write(buf) may return; Sink takes everything
Copy_write(l, buf) ==
    IF l.writer = "sink" THEN {Ok(Len(buf))}
                         ELSE WriteResults(l.std, Len(buf))

\* slip: an interrupted read ends the copy
stack_copy_match_no_retry(l, r) ==
    CASE r.tag = "Ok" /\ r.n = 0 -> [l EXCEPT !.pc = "done", !.res = Ok(l.written)]
      [] r.tag = "Ok" /\ r.n > 0 ->
             [l EXCEPT !.pc = "write_all",
                       !.w = [@ EXCEPT !.data = SubSeq(l.src, 1, r.n),
                                       !.written = 0, !.pc = "loop"]]
      [] OTHER -> [l EXCEPT !.pc = "done", !.res = Err(r.e)]

\* the match on the result of read.read(&mut buffer[..])
stack_copy_match(l, r) ==
    CASE r.tag = "Ok" /\ r.n = 0 -> [l EXCEPT !.pc = "done", !.res = Ok(l.written)]
      [] r.tag = "Ok" /\ r.n > 0 ->
             [l EXCEPT !.pc = "write_all",
                       !.w = [@ EXCEPT !.data = SubSeq(l.src, 1, r.n),
                                       !.written = 0, !.pc = "loop"]]
      [] r.tag = "Err" /\ Error_is_interrupted(l.std, r.e) -> l
      [] OTHER -> [l EXCEPT !.pc = "done", !.res = Err(r.e)]

\* the head of one round of the loop: the read and its match
stack_copy ==
    /\ lib.op = "copy" /\ lib.pc = "read"
    /\ \E r \in Copy_read(lib) :
          /\ (r.tag = "Err" /\ Error_is_interrupted(lib.std, r.e))
                 => lib.intr < MaxIntr
          /\ LET n == IF r.tag = "Ok" THEN r.n ELSE 0
                 m == stack_copy_match(lib, r)
             IN  lib' = [m EXCEPT
                           !.src = SubSeq(@, n + 1, Len(@)),
                           !.intr = IF r.tag = "Err"
                                       /\ Error_is_interrupted(lib.std, r.e)
                                    THEN @ + 1 ELSE @,
                           !.last = r]
    /\ UNCHANGED hvars

\* write.write_all(&buffer[..len])?; written += len as u64: one round of
\* write_all's loop, and what follows its return
stack_copy_write_all ==
    /\ lib.op = "copy" /\ lib.pc = "write_all"
    /\ LET buf == SubSeq(lib.w.data, lib.w.written + 1, Len(lib.w.data))
       IN  IF buf = <<>>
           THEN lib' = [lib EXCEPT !.pc = "read",
                                   !.written = @ + Len(lib.w.data)]
           ELSE \E r \in Copy_write(lib, buf) :
                   /\ (r.tag = "Err" /\ Error_is_interrupted(lib.std, r.e))
                          => lib.w.intr < MaxIntr
                   /\ LET w == write_all_match(Writer_write(lib.w, buf, r), r)
                      IN  lib' = IF w.pc = "done"
                                 THEN [lib EXCEPT !.w = w, !.pc = "done",
                                                  !.res = w.res]
                                 ELSE [lib EXCEPT !.w = w]
    /\ UNCHANGED hvars

(***************************************************************************)
(* write_all on a fixed-size byte slice, the slice itself or the slice in  *)
(* an AllowStd built without std.  lib holds the slice that is left, the   *)
(* caller's bytes data with the offset written, the bytes put into the     *)
(* slice so far, and as history the slice's length at the start.           *)
(***************************************************************************)
\* impl Write for AllowStd<&mut [u8]> of lib.rs: the slice is taken out of
\* self.0, and put back as the tail after the copy
AllowStd_SliceMut_write(slice, buf) ==
    LET len == Min(Len(slice), Len(buf))
    IN  IF Len(buf) # len
        THEN [n |-> 0, head |-> SubSeq(slice, 1, len), tail |-> <<>>,
              panic |-> TRUE]
        ELSE [n |-> len, head |-> buf,
              tail |-> SubSeq(slice, len + 1, Len(slice)), panic |-> FALSE]

\* one round of write_all's loop over the slice
SliceMut_write_all ==
    /\ lib.op = "slice_write" /\ lib.pc = "loop"
    /\ LET buf == SubSeq(lib.data, lib.written + 1, Len(lib.data))
           w   == IF lib.via = "AllowStd"
                  THEN AllowStd_SliceMut_write(lib.slice, buf)
                  ELSE SliceMut_write(lib.slice, buf)
       IN  IF buf = <<>>
           THEN lib' = [lib EXCEPT !.pc = "done", !.res = Ok(0)]
           ELSE IF w.panic
           THEN lib' = [lib EXCEPT !.pc = "panicked", !.panic = TRUE,
                                   !.slice = w.tail]
           ELSE lib' = write_all_match(
                           [lib EXCEPT !.slice = w.tail,
                                       !.filled = @ \o w.head], Ok(w.n))
    /\ UNCHANGED hvars

(***************************************************************************)
(* Reading from a byte slice in an AllowStd built without std.  There are  *)
(* two impls: the one of lib.rs (mod impls_generic_in_std) and the one of  *)
(* impls_nostd_noalloc.rs, which calls the slice's own read; lib.impl says *)
(* which.  The caller makes read calls one after another, or one           *)
(* read_exact.  lib holds the slice that is left and the caller's buffer   *)
(* dst with the offset filled; as history the slice slice0 at the start,   *)
(* the slice s0 before the last read call, the length n of the buffer      *)
(* given to it, its result r and the bytes got by all read calls.          *)
(***************************************************************************)
\* impl Read for AllowStd<&[u8]> of lib.rs: buf[..len].copy_from_slice(&self.0)
\* panics unless the two lengths agree; self.0 stays as it is
AllowStd_Slice_read_lib(slice, n) ==
    LET len == Min(Len(slice), n)
    IN  IF Len(slice) # len
        THEN [n |-> 0, out |-> <<>>, rest |-> slice, panic |-> TRUE]
        ELSE [n |-> len, out |-> slice, rest |-> slice, panic |-> FALSE]

\* AllowStd<&[u8]>::read of either impl
AllowStd_Slice_read(impl, slice, n) ==
    IF impl = "impls_generic_in_std"
    THEN AllowStd_Slice_read_lib(slice, n)
    ELSE LET r == Slice_read(slice, n)
         IN  [n |-> r.n, out |-> r.out, rest |-> r.rest, panic |-> FALSE]

\* one read call with a buffer of n bytes
AllowStd_read ==
    /\ lib.op = "allow_read" /\ lib.pc = "reads" /\ lib.calls < MaxLen
    /\ \E n \in 0..MaxLen :
          LET r == AllowStd_Slice_read(lib.impl, lib.slice, n)
          IN  lib' = [lib EXCEPT !.s0 = lib.slice, !.slice = r.rest,
                                 !.n = n, !.r = r, !.got = @ \o r.out,
                                 !.calls = @ + 1, !.panic = r.panic,
                                 !.pc = IF r.panic THEN "panicked" ELSE @]
    /\ UNCHANGED hvars

\* one round of read_exact's loop over the AllowStd
AllowStd_read_exact ==
    /\ lib.op = "allow_read" /\ lib.pc = "loop"
    /\ LET buf == Len(lib.dst) - lib.filled
           r   == AllowStd_Slice_read(lib.impl, lib.slice, buf)
       IN  IF buf = 0
           THEN lib' = [lib EXCEPT !.pc = "done", !.res = Ok(0)]
           ELSE IF r.panic
           THEN lib' = [lib EXCEPT !.pc = "panicked", !.panic = TRUE]
           ELSE lib' = read_exact_match(
                           [lib EXCEPT
                              !.slice = r.rest,
                              !.dst = [i \in 1..Len(@) |->
                                         IF i > lib.filled /\ i <= lib.filled + r.n
                                         THEN r.out[i - lib.filled] ELSE @[i]],
                              !.calls = @ + 1], Ok(r.n))
    /\ UNCHANGED hvars

(***************************************************************************)
(* The library's specification: one operation is chosen with its inputs,   *)
(* then run.                                                               *)
(***************************************************************************)
InitLib ==
    /\ NoHandle
    /\ \/ \E std \in BOOLEAN, n \in 0..MaxLen, len \in 0..MaxLen :
            lib = [op |-> "read_exact", pc |-> "loop", std |-> std,
                   src0 |-> Iota(n), src |-> Iota(n), dst |-> Zeros(len),
                   filled |-> 0, res |-> None, calls |-> 0, intr |-> 0,
                   last |-> None]
       \/ \E std \in BOOLEAN, n \in 0..MaxLen :
            lib = [op |-> "write_all", pc |-> "loop", std |-> std,
                   data |-> Iota(n), written |-> 0, sink |-> <<>>,
                   offered |-> <<>>, res |-> None, calls |-> 0, intr |-> 0,
                   last |-> None]
       \/ \E n \in 0..MaxLen, pos \in CursorPositions :
            lib = [op |-> "cursor",
                   s |-> [Cursor_new(Iota(n)) EXCEPT !.pos = pos],
                   s0 |-> None, p0 |-> pos, call |-> None, r |-> None,
                   got |-> <<>>, prev |-> None]
       \/ \E std \in BOOLEAN, n \in 0..MaxLen,
             limit \in 0..(MaxLen + 1) \cup {U64 - 1} :
            lib = [op |-> "take", std |-> std, limit |-> limit,
                   src |-> Iota(n), n0 |-> limit, l0 |-> limit,
                   call |-> None, asked |-> 0, called |-> FALSE, r |-> None,
                   sum |-> 0]
       \/ \E std \in BOOLEAN :
            lib = [op |-> "error", std |-> std, of |-> None, e |-> None,
                   interrupted |-> FALSE, back |-> None]
       \/ \E std \in BOOLEAN, buf0 \in OutBufs, spare \in 0..1,
             n \in 0..MaxLen \cup {ReserveLen, ReserveLen + 1} :
            lib = [op |-> "read_to_end", pc |-> "loop", std |-> std,
                   src0 |-> Iota(n), src |-> Iota(n), buf0 |-> buf0,
                   buf |-> buf0, cap |-> Len(buf0) + spare,
                   len |-> Len(buf0), start_len |-> Len(buf0), res |-> None,
                   intr |-> 0, last |-> None]
       \/ \E op \in {"read_to_string", "read_line"}, buf0 \in OutBufs,
             src \in TextStreams :
            lib = [op |-> op, pc |-> "loop", std |-> FALSE,
                   src0 |-> src, src |-> src, buf0 |-> buf0,
                   buf |-> buf0, cap |-> Len(buf0),
                   len |-> Len(buf0), start_len |-> Len(buf0), res |-> None,
                   intr |-> 0, last |-> None, read |-> 0, ret |-> None,
                   byte |-> 10]
       \/ \E std \in BOOLEAN, byte \in Delimiters, buf0 \in OutBufs,
             src \in UNION {[1..n -> Delimiters \cup {169}] : n \in 0..MaxLen} :
            lib = [op |-> "read_until", pc |-> "loop", std |-> std,
                   byte |-> byte, all0 |-> src, src0 |-> src, src |-> src,
                   out0 |-> buf0, buf0 |-> buf0, buf |-> buf0, res |-> None,
                   intr |-> 0, last |-> None, read |-> 0, round |-> 1,
                   first |-> None]
       \/ \E std \in BOOLEAN, n \in 0..MaxLen, reader \in {"any", "slice"},
             writer \in {"any", "sink"} :
            lib = [op |-> "copy", pc |-> "read", std |-> std,
                   reader |-> reader, writer |-> writer,
                   src0 |-> Iota(n), src |-> Iota(n), written |-> 0,
                   w |-> [std |-> std, pc |-> "loop", data |-> <<>>,
                          written |-> 0, sink |-> <<>>, offered |-> <<>>,
                          res |-> None, calls |-> 0, intr |-> 0,
                          last |-> None],
                   res |-> None, intr |-> 0, last |-> None]
       \/ \E n \in {DEFAULT_STACK_BUFFER_SIZE, DEFAULT_STACK_BUFFER_SIZE + 1} :
            lib = [op |-> "copy", pc |-> "read", std |-> FALSE,
                   reader |-> "slice", writer |-> "sink",
                   src0 |-> Iota(n), src |-> Iota(n), written |-> 0,
                   w |-> [std |-> FALSE, pc |-> "loop", data |-> <<>>,
                          written |-> 0, sink |-> <<>>, offered |-> <<>>,
                          res |-> None, calls |-> 0, intr |-> 0,
                          last |-> None],
                   res |-> None, intr |-> 0, last |-> None]
       \/ \E std \in BOOLEAN, via \in {"slice", "AllowStd"}, len \in 0..MaxLen,
             n \in 0..(MaxLen + 1) :
            /\ via = "AllowStd" => ~std
            /\ lib = [op |-> "slice_write", pc |-> "loop", std |-> std,
                      via |-> via, len0 |-> len, slice |-> Zeros(len),
                      data |-> Iota(n), written |-> 0, filled |-> <<>>,
                      res |-> None, panic |-> FALSE]
       \/ \E impl \in {"impls_generic_in_std", "impls_nostd_noalloc"},
             pc \in {"reads", "loop"}, n \in 0..MaxLen, len \in 0..MaxLen :
            lib = [op |-> "allow_read", pc |-> pc, std |-> FALSE,
                   impl |-> impl, slice0 |-> Iota(n), slice |-> Iota(n),
                   dst |-> Zeros(len), filled |-> 0, res |-> None,
                   s0 |-> <<>>, n |-> 0, r |-> None, got |-> <<>>,
                   calls |-> 0, panic |-> FALSE]
       \/ \E n \in 0..MaxLen, limit \in 0..(MaxLen + 1) \cup {U64 - 1} :
            lib = [op |-> "take_buf", std |-> FALSE, limit |-> limit,
                   src |-> Iota(n), n0 |-> limit, l0 |-> limit,
                   call |-> None, asked |-> 0, called |-> FALSE, r |-> None,
                   sum |-> 0, panic |-> FALSE]

NextLib ==
    \/ read_exact
    \/ write_all
    \/ Cursor_call
    \/ Take_call
    \/ Error_make
    \/ read_to_end
    \/ read_until
    \/ read_until_again
    \/ stack_copy
    \/ stack_copy_write_all
    \/ SliceMut_write_all
    \/ AllowStd_read
    \/ AllowStd_read_exact
    \/ append_to_string

SpecLib == InitLib /\ [][NextLib]_vars

(***************************************************************************)
(* The two loops alone, each round of which is taken in the end: a call    *)
(* of read_exact or write_all runs until it returns.  The stream returns   *)
(* an interrupted error at most MaxIntr times.                             *)
(***************************************************************************)
InitLoops == InitLib /\ lib.op \in {"read_exact", "write_all"}

NextLoops == read_exact \/ write_all

SpecLoops ==
    InitLoops /\ [][NextLoops]_vars /\ WF_vars(read_exact) /\ WF_vars(write_all)

(***************************************************************************)
(* Properties of the handles.                                              *)
(***************************************************************************)
AllTraits == Caps(kind) \cup {Mandatory(kind)}
AllTypes == ReaderTypes \cup WriterTypes

\* the pointer an accessor of object t for trait tr is made from
Stored(t, tr) ==
    CASE t = "handle" -> IF tr = Mandatory(kind) THEN handle.io
                                                 ELSE handle.vtable[tr]
      [] t = "view"   -> IF tr = Mandatory(kind) THEN view.inner
                                                 ELSE view.vtable[tr]
      [] t = "box"    -> IF tr = Mandatory(kind) THEN box.inner
                                                 ELSE box.vtable[tr]

Anchored(acc, stored) ==
    acc # None =>
        /\ acc.addr = loc
        /\ acc.vt = stored.vt
        /\ mem[acc.addr].ty = acc.vt.ty

\* C1: every accessor a getter of a handle, a view or a box returns has the
\* current place of the owned stream value as its address, whatever address
\* the stored pointer holds, and the stored pointer's vtable as its vtable.
C1_CurrentAddress ==
    \A t \in Targets : Live(t) =>
        \A tr \in AllTraits :
            /\ Anchored(GetMut(t, tr), Stored(t, tr))
            /\ HasRef(t, tr) => Anchored(GetRef(t, tr), Stored(t, tr))

\* a box whose Seek slot and mandatory pointer still hold the places the
\* value had on the stack, after stream operations
C1_Witness ==
    /\ form = "boxed" /\ view = None /\ mutated
    /\ box.vtable["Seek"] # None
    /\ box.vtable["Seek"].addr # loc
    /\ ReaderBox_as_seek_mut.addr = loc

\* C2: after into_boxed every accessor of the box, and of a view of the box,
\* for the mandatory trait and for each declared capability is there and runs
\* on the stream state that all operations made so far, before and after the
\* conversion, amount to.
C2_BoxKeepsState ==
    form = "boxed" =>
        \A t \in {"box", "view"} : Live(t) =>
            \A tr \in AllTraits :
                (tr \in declared \/ tr = Mandatory(kind)) =>
                    /\ GetMut(t, tr) # None
                    /\ mem[GetMut(t, tr).addr] = logical

\* a box made from a handle with a declared capability after stream
\* operations had changed the stream
C2_Witness ==
    /\ form = "boxed" /\ view = None /\ atBox
    /\ "Seek" \in declared
    /\ logical # orig
    /\ mem[ReaderBox_as_seek_mut.addr].pos > 0

\* C3: once a getter for a capability has returned an accessor, or the
\* capability has been declared, the getters for it return an accessor on
\* every object usable after any further step.
C3_NoRetraction ==
    [][\A tr \in Caps(kind) :
         (tr \in declared' \/ \E t \in Targets : Live(t) /\ GetMut(t, tr) # None)
         => \A t \in Targets : Live(t)' =>
                /\ GetMut(t, tr)' # None
                /\ HasRef(t, tr) => GetRef(t, tr)' # None]_vars

\* a view of a box made from a handle on which Seek was declared
C3_Witness ==
    /\ form = "boxed" /\ view # None /\ mutated
    /\ "Seek" \in declared
    /\ ReaderMut_as_seek_mut # None

\* C4: while no capability has been declared every optional getter of the
\* handle, of a view and of a box returns None.
C4_AbsentByDefault ==
    declared = {} =>
        \A t \in Targets : Live(t) =>
            \A tr \in Caps(kind) :
                /\ GetMut(t, tr) = None
                /\ HasRef(t, tr) => GetRef(t, tr) = None

\* a view of a box, nothing declared
C4_Witness ==
    /\ declared = {} /\ form = "boxed" /\ view # None
    /\ ReaderMut_as_seek_mut = None /\ ReaderMut_as_any = None

\* C5: a view carries the table of the object it was derived from, and the
\* getters of a view and of a box return an accessor for exactly the
\* capabilities declared on the handle.
C5_TableCarried ==
    /\ view # None =>
          /\ view.vtable = IF form = "handle" THEN handle.vtable ELSE box.vtable
          /\ \A tr \in Caps(kind) : (GetMut("view", tr) # None) <=> tr \in declared
    /\ form = "boxed" =>
          \A tr \in Caps(kind) : (GetMut("box", tr) # None) <=> tr \in declared

\* a view of a box with some capabilities declared and some not
C5_Witness ==
    /\ view # None /\ form = "boxed"
    /\ declared # {} /\ declared # Caps(kind)
    /\ "Any" \in declared

\* C6: into_inner returns the stream value in the state all operations made
\* through accessors amount to, and the value passed to new when none was made.
C6_IntoInner ==
    form = "inner" =>
        /\ ret = logical
        /\ ~mutated => ret = orig

\* unwrapped after declarations and stream operations that changed the value
C6_Witness ==
    /\ form = "inner" /\ mutated /\ declared # {}
    /\ ret # orig

\* what the next write of buf lands on, given the container and the position
\* an observer reads off the stream
WriteAt(data, pos, buf) ==
    LET p == Min(pos, Len(data))
    IN  SubSeq(data, 1, p) \o buf \o SubSeq(data, p + Len(buf) + 1, Len(data))

\* C7: the accessors of one object share one stream state.  The position the
\* Seek accessor reports and the bytes the BufRead accessor shows are those
\* all operations so far, through whichever accessor, amount to; the next
\* read through the mandatory accessor returns the bytes at that position
\* and the next write through it that fits lands at that position, leaving
\* the bytes before it as they were.
C7_SharedState ==
    \A t \in Targets : Live(t) =>
        LET io   == GetMut(t, Mandatory(kind))
            seek == GetMut(t, "Seek")
            data == mem[loc].data
        IN  /\ seek # None =>
                /\ StreamPosition(seek) = logical.pos
                /\ kind = "Reader" =>
                     \A n \in 0..MaxLen :
                        LET p == Min(StreamPosition(seek), Len(data))
                        IN  Invoke(io.vt, "read", mem[io.addr], n).out
                              = SubSeq(data, p + 1, Min(Len(data), p + n))
                /\ kind = "Writer" =>
                     \A buf \in WriteBufs :
                        LET r == Invoke(io.vt, "write", mem[io.addr], buf)
                        IN  ~r.panic =>
                              /\ r.s.data = WriteAt(data, StreamPosition(seek), buf)
                              /\ r.s.pos = StreamPosition(seek) + Len(buf)
            /\ (kind = "Reader" /\ GetMut(t, "BufRead") # None) =>
                LET ahead == FillBuf(GetMut(t, "BufRead"))
                IN  /\ ahead = (IF Ty = "Cursor" THEN Cursor_fill_buf(logical)
                                                ELSE SliceStream_fill_buf(logical))
                    /\ \A n \in 0..MaxLen :
                          Invoke(io.vt, "read", mem[io.addr], n).out
                            = SubSeq(ahead, 1, Min(n, Len(ahead)))

\* a writer whose buffer was filled, whose position was then set back
\* through the Seek accessor and whose tail was overwritten, the first byte
\* being as first written
C7_Witness ==
    /\ kind = "Writer" /\ Live("handle") /\ ~panicked
    /\ Reader_as_seek_mut # None
    /\ handle.vtable["Seek"].addr # loc
    /\ Len(mem[loc].data) = MaxLen
    /\ mem[loc].data[1] = 7
    /\ \A i \in 2..MaxLen : mem[loc].data[i] = 8
    /\ StreamPosition(Reader_as_seek_mut) = MaxLen

\* what a caller can observe of a handle: the result of every getter and the
\* stream value
Obs ==
    [mut   |-> [tr \in AllTraits |-> GetMut("handle", tr)],
     ref   |-> [tr \in AllTraits |-> GetRef("handle", tr)],
     value |-> mem[loc]]

\* C8: a step that declares a capability already declared leaves every
\* getter's result and the stream value as they were.
C8_Idempotent == [][redecl' => Obs' = Obs]_vars

\* a capability declared again after the handle had moved away from the
\* place of the first declaration
C8_Witness ==
    /\ redecl /\ form = "handle"
    /\ handle.io.addr # loc
    /\ \E tr \in declared : handle.vtable[tr].addr = loc

\* C10: before set_any the as_any getters of a handle and of a view return
\* None; after it they return an accessor that downcasts to the wrapped
\* value's type, giving the owned value, and to no other type.
C10_Any ==
    \A t \in {"handle", "view"} : Live(t) =>
        IF "Any" \in declared
        THEN \A acc \in {GetRef(t, "Any"), GetMut(t, "Any")} :
                /\ acc # None
                /\ Downcast(acc, Ty) = mem[loc]
                /\ \A T \in AllTypes \ {Ty} : Downcast(acc, T) = None
        ELSE GetRef(t, "Any") = None /\ GetMut(t, "Any") = None

\* a view derived from a handle after set_any and a move of the handle
C10_Witness ==
    /\ "Any" \in declared /\ view # None /\ form = "handle"
    /\ view.vtable["Any"].addr # loc
    /\ Downcast(ReaderMut_as_any, Ty) = mem[loc]

\* C9: when read_with_skip returns and skip was at most the stream's length,
\* it returned Ok and the output is what it was before followed by the
\* stream's bytes from offset skip on; it made no seek call when Seek was
\* not declared, skipping by read calls, and one seek call when Seek was
\* declared and skip was positive.
C9_ReadWithSkip ==
    (rws.pc = "done" /\ rws.skip0 <= Len(orig.data)) =>
        /\ rws.res = "Ok"
        /\ rws.buffer = rws.buf0 \o SubSeq(orig.data, rws.skip0 + 1, Len(orig.data))
        /\ rws.num_seek = IF "Seek" \in declared /\ rws.skip0 > 0 THEN 1 ELSE 0
        /\ ("Seek" \notin declared /\ rws.skip0 > 0) => rws.num_read >= 2

\* a box made from a handle with Seek declared, a positive skip short of the
\* end, an output that was not empty
C9_Witness ==
    /\ rws.pc = "done" /\ form = "boxed" /\ rws.t = "view"
    /\ "Seek" \in declared
    /\ rws.skip0 > 1 /\ rws.skip0 < Len(orig.data)
    /\ rws.buf0 # <<>>
    /\ rws.num_seek = 1
    /\ box.vtable["Seek"].addr # loc

(***************************************************************************)
(* The baseline library's claims.                                          *)
(***************************************************************************)
\* the kind an Error holds or wraps
KindOf(e) == IF e.inner.tag = "Error" THEN e.inner.err.kind ELSE e.inner.kind
\* C12: read_exact keeps what it has read across calls: the filled part of
\* buf is the stream's first bytes in order, the bytes behind it are
\* untouched and the reader holds the rest of the stream.  It returns Ok only
\* when buf is full, goes on after an interrupted call, returns an
\* UnexpectedEof error when a call returns 0 with buf not full, returns any
\* other error of a call as it is, and makes no call for an empty buf.
C12_ReadExact ==
    lib.op = "read_exact" =>
    LET len == Len(lib.dst)
        interrupted == /\ lib.last # None /\ lib.last.tag = "Err"
                       /\ lib.std /\ KindOf(lib.last.e) = "Interrupted"
        failed == /\ lib.last # None /\ lib.last.tag = "Err"
                  /\ ~(lib.std /\ KindOf(lib.last.e) = "Interrupted")
    IN  /\ SubSeq(lib.dst, 1, lib.filled) = SubSeq(lib.src0, 1, lib.filled)
        /\ \A i \in (lib.filled + 1)..len : lib.dst[i] = 0
        /\ lib.src = SubSeq(lib.src0, lib.filled + 1, Len(lib.src0))
        /\ (lib.pc = "done" /\ lib.res.tag = "Ok") => lib.filled = len
        /\ (lib.pc = "loop" /\ lib.last # None) =>
              \/ interrupted
              \/ lib.last.tag = "Ok" /\ lib.last.n > 0
        /\ interrupted => lib.pc = "loop"
        /\ lib.last = Ok(0) =>
              /\ lib.pc = "done" /\ lib.filled < len
              /\ lib.res.tag = "Err" /\ KindOf(lib.res.e) = "UnexpectedEof"
        /\ failed => lib.pc = "done" /\ lib.res = lib.last
        /\ len = 0 => lib.calls = 0

\* a buffer of three bytes filled by two short reads around an interrupted
\* call
C12_Witness ==
    /\ lib.op = "read_exact" /\ lib.pc = "done" /\ lib.res.tag = "Ok"
    /\ Len(lib.dst) = 3 /\ lib.dst = SubSeq(lib.src0, 1, 3)
    /\ lib.intr > 0 /\ lib.calls = 3

\* C13: write_all offers each call exactly the bytes not yet accepted, so the
\* writer has accepted the first bytes of buf once each and in order; it
\* returns Ok only when all are accepted, goes on after an interrupted call,
\* returns a WriteZero error when a call returns 0 with bytes remaining and
\* returns any other error of a call as it is.
C13_WriteAll ==
    lib.op = "write_all" =>
    LET len == Len(lib.data)
        interrupted == /\ lib.last # None /\ lib.last.tag = "Err"
                       /\ lib.std /\ KindOf(lib.last.e) = "Interrupted"
        failed == /\ lib.last # None /\ lib.last.tag = "Err"
                  /\ ~(lib.std /\ KindOf(lib.last.e) = "Interrupted")
        accepted == IF lib.last # None /\ lib.last.tag = "Ok"
                    THEN lib.last.n ELSE 0
    IN  /\ lib.sink = SubSeq(lib.data, 1, lib.written)
        /\ lib.last # None =>
              lib.offered = SubSeq(lib.data, lib.written - accepted + 1, len)
        /\ (lib.pc = "done" /\ lib.res.tag = "Ok") => lib.sink = lib.data
        /\ (lib.pc = "loop" /\ lib.last # None) =>
              \/ interrupted
              \/ lib.last.tag = "Ok" /\ lib.last.n > 0
        /\ interrupted => lib.pc = "loop"
        /\ lib.last = Ok(0) =>
              /\ lib.pc = "done" /\ lib.written < len
              /\ lib.res.tag = "Err" /\ KindOf(lib.res.e) = "WriteZero"
        /\ failed => lib.pc = "done" /\ lib.res = lib.last
        /\ len = 0 => lib.calls = 0

\* three bytes accepted in two calls with an interrupted call between them
C13_Witness ==
    /\ lib.op = "write_all" /\ lib.pc = "done" /\ lib.res.tag = "Ok"
    /\ Len(lib.data) = 3 /\ lib.sink = lib.data
    /\ lib.intr > 0 /\ lib.calls = 3

\* the cursor was last called with method m
LastCall(m) == lib.op = "cursor" /\ lib.call # None /\ lib.call.m = m

\* C14: write(buf) on a cursor at position p over a buffer of length L
\* returns Ok with count n = min(L - min(p, L), buf.len()), puts buf's first
\* n bytes at offset min(p, L), leaves the other bytes and L alone and
\* advances the position by n, whatever the length of buf.
C14_CursorWrite ==
    LastCall("write") =>
        LET data  == lib.s0.data
            L     == Len(data)
            p     == lib.s0.pos
            start == Min(p, L)
            buf   == lib.call.arg
            n     == Min(L - start, Len(buf))
        IN  /\ ~lib.r.panic /\ lib.r.err = ""
            /\ lib.r.n = n
            /\ lib.s.pos = p + n
            /\ lib.s.data = [i \in 1..L |->
                               IF i > start /\ i <= start + n
                               THEN buf[i - start] ELSE data[i]]

\* C16: seek gives Start(n) the position n, End(n) the length plus n and
\* Current(n) the position plus n, for every signed offset; it fails exactly
\* when that sum is negative or not below 2^WordBits, and otherwise returns
\* the sum and stores it.  After End(-1) fill_buf is the last byte.
C16_CursorSeek ==
    LastCall("seek") =>
        LET sf   == lib.call.arg
            L    == Len(lib.s0.data)
            math == CASE sf.from = "Start"   -> sf.n
                      [] sf.from = "End"     -> L + sf.n
                      [] sf.from = "Current" -> lib.s0.pos + sf.n
        IN  /\ ~lib.r.panic
            /\ lib.r.err # "" <=> (math < 0 \/ math >= U64)
            /\ lib.r.err = "" => lib.r.n = math /\ lib.s.pos = math
            /\ lib.s.data = lib.s0.data
            /\ (sf = [from |-> "End", n |-> -1] /\ L > 0) =>
                  /\ lib.r.err = ""
                  /\ Cursor_fill_buf(lib.s) = <<lib.s0.data[L]>>

\* Current(i64::MIN) from the last position of the range
C16_Witness ==
    /\ LastCall("seek") /\ lib.r.err = ""
    /\ lib.call.arg = [from |-> "Current", n |-> I64Min]
    /\ lib.s0.pos = U64 - 1 /\ lib.s.pos = I64Max

\* C17: fill_buf is the buffer's bytes from min(position, length) on, all
\* of them at position 0 and none at or past the end; read copies the first
\* min(available, buf.len()) of them and advances the position by that
\* count, so the reads of a run got, in order, the bytes between the
\* position the cursor was placed at and the position it has reached.
C17_CursorRead ==
    (lib.op = "cursor" /\ (lib.call = None \/ LastCall("read"))) =>
        LET data  == lib.s.data
            L     == Len(data)
            avail0 == Cursor_fill_buf(lib.s)
            from0 == Min(lib.p0, L)
        IN  /\ avail0 = [i \in 1..(L - Min(lib.s.pos, L)) |->
                          data[Min(lib.s.pos, L) + i]]
            /\ lib.s.pos = 0 => avail0 = data
            /\ lib.s.pos >= L => avail0 = <<>>
            /\ lib.got = [i \in 1..(Min(lib.s.pos, L) - from0) |-> data[from0 + i]]
            /\ LastCall("read") =>
                  LET avail == L - Min(lib.s0.pos, L)
                      n     == Min(avail, lib.call.arg)
                  IN  /\ lib.r.n = n /\ lib.r.err = "" /\ ~lib.r.panic
                      /\ lib.r.out = SubSeq(Cursor_fill_buf(lib.s0), 1, n)
                      /\ lib.s.pos = lib.s0.pos + n
                      /\ lib.s.data = lib.s0.data

\* a buffer of three bytes read from its start by a read of one byte and
\* then a read that asks for more than is left
C17_Witness ==
    /\ LastCall("read") /\ lib.p0 = 0 /\ Len(lib.s.data) = 3
    /\ lib.s0.pos = 1 /\ lib.call.arg = 3 /\ lib.r.n = 2
    /\ lib.got = lib.s.data

\* C15: for a Take made with limit N, the counts returned by its read calls
\* sum to at most N and the limit is N less that sum; a read that calls the
\* inner reader asks it for at most min(limit, buf.len()) bytes; and with
\* the limit at 0 a read returns 0 and a fill_buf returns an empty slice,
\* neither calling the inner reader.
C15_Take ==
    lib.op = "take" =>
        /\ lib.sum <= lib.n0
        /\ lib.limit = lib.n0 - lib.sum
        /\ lib.call # None =>
              /\ (lib.call.m = "read" /\ lib.called) =>
                    lib.asked <= Min(lib.l0, lib.call.arg)
              /\ (lib.call.m = "read" /\ lib.r.tag = "Ok") =>
                    lib.r.n <= Min(lib.l0, lib.call.arg)
              /\ lib.l0 = 0 =>
                    /\ ~lib.called
                    /\ lib.call.m = "read" => lib.r = Ok(0)
                    /\ lib.call.m = "fill_buf" => lib.r.buf = <<>>

\* a Take of two bytes over three: a read into three bytes got two, and the
\* next read returns 0, leaving the inner reader its last byte
C15_Witness ==
    /\ lib.op = "take" /\ lib.n0 = 2 /\ lib.sum = 2 /\ lib.src = <<3>>
    /\ lib.call # None /\ lib.call.m = "read" /\ lib.call.arg = 3
    /\ lib.l0 = 0 /\ ~lib.called /\ lib.r = Ok(0)

\* C18: with the host error type, an Error made from the kind WriteZero or
\* UnexpectedEof wraps a host error of that kind, a host error made into an
\* Error and converted back is the host error it was, and is_interrupted is
\* true exactly of an Error that wraps a host error of kind Interrupted;
\* without the host type is_interrupted is false of every Error.
C18_ErrorKind ==
    (lib.op = "error" /\ lib.e # None) =>
        IF lib.std
        THEN /\ lib.e.inner.tag = "Error"
             /\ lib.of \in {[kind |-> k] : k \in ErrorKinds} =>
                   lib.e.inner.err.kind = lib.of.kind
             /\ lib.of \in {[host |-> h] : h \in HostErrors} =>
                   /\ lib.back = lib.of.host
                   /\ lib.e.inner.err = lib.of.host
             /\ lib.interrupted <=> lib.e.inner.err.kind = "Interrupted"
        ELSE /\ ~lib.interrupted
             /\ lib.e.inner = [tag |-> "Kind", kind |-> lib.of.kind]

\* a host error of kind Interrupted carrying an OS code, wrapped, found
\* interrupted and converted back
C18_Witness ==
    /\ lib.op = "error" /\ lib.std
    /\ lib.of = [host |-> [kind |-> "Interrupted", repr |-> "os"]]
    /\ lib.interrupted
    /\ lib.back = [kind |-> "Interrupted", repr |-> "os"]

\* C19: read_to_end returns Ok(n) only after a read returned 0, with the
\* reader exhausted and n the number of bytes it held, and buf is then what
\* it was at the call followed by exactly those bytes, without padding; an
\* interrupted call is tried again, any other error is returned as it is.
\* All the while the first len bytes of buf are its old content followed by
\* the bytes read so far.
C19_ReadToEnd ==
    lib.op = "read_to_end" =>
    LET interrupted == /\ lib.last # None /\ lib.last.tag = "Err"
                       /\ lib.std /\ KindOf(lib.last.e) = "Interrupted"
        failed == /\ lib.last # None /\ lib.last.tag = "Err"
                  /\ ~(lib.std /\ KindOf(lib.last.e) = "Interrupted")
        taken == Len(lib.src0) - Len(lib.src)
    IN  /\ lib.src = SubSeq(lib.src0, taken + 1, Len(lib.src0))
        /\ lib.len = lib.start_len + taken
        /\ SubSeq(lib.buf, 1, lib.len) = lib.buf0 \o SubSeq(lib.src0, 1, taken)
        /\ (lib.pc = "done" /\ lib.res.tag = "Ok") =>
              /\ lib.last = Ok(0)
              /\ lib.src = <<>>
              /\ lib.res.n = Len(lib.src0)
              /\ lib.buf = lib.buf0 \o lib.src0
        /\ lib.last = Ok(0) => lib.pc = "done" /\ lib.res.tag = "Ok"
        /\ interrupted => lib.pc = "loop"
        /\ failed => lib.pc = "done" /\ lib.res = lib.last
        /\ lib.pc = "done" => Len(lib.buf) = lib.len

\* a reader of more bytes than one reservation holds, read in short reads
\* around an interrupted call into a vector that was not empty
C19_Witness ==
    /\ lib.op = "read_to_end" /\ lib.pc = "done" /\ lib.res.tag = "Ok"
    /\ lib.res.n = ReserveLen + 1 /\ lib.buf0 # <<>>
    /\ lib.intr > 0
    /\ lib.cap > Len(lib.buf) /\ lib.cap >= 2 * ReserveLen

\* C20: when read_to_string or read_line returns, the bytes it appended are
\* the bytes it took from the reader; if they are not well-formed UTF-8 it
\* returns an error, of kind InvalidData when the read itself succeeded and
\* the read's own error otherwise; if they are well-formed it returns what
\* the read returned, on success the number of bytes appended, and the
\* string is its old text followed by the characters those bytes spell.
\* read_to_string takes all the reader has, read_line the bytes up to and
\* with the first '\n'.
C20_Utf8 ==
    (lib.op \in {"read_to_string", "read_line"} /\ lib.pc = "returned") =>
        LET taken    == SubSeq(lib.src0, 1, Len(lib.src0) - Len(lib.src))
            appended == SubSeq(lib.buf, Len(lib.buf0) + 1, Len(lib.buf))
            text     == from_utf8(appended)
            line     == {i \in 1..Len(lib.src0) : lib.src0[i] = 10}
        IN  /\ appended = taken
            /\ SubSeq(lib.buf, 1, Len(lib.buf0)) = lib.buf0
            /\ ~text.ok =>
                  /\ lib.ret.tag = "Err"
                  /\ lib.res.tag = "Ok" =>
                        lib.ret.e.inner = [tag |-> "Kind", kind |-> "InvalidData"]
                  /\ lib.res.tag = "Err" => lib.ret = lib.res
            /\ text.ok =>
                  /\ lib.ret = lib.res
                  /\ lib.res.tag = "Ok" =>
                        /\ lib.ret.n = Len(appended)
                        /\ from_utf8(lib.buf).ok
                        /\ from_utf8(lib.buf).chars =
                               from_utf8(lib.buf0).chars \o text.chars
            /\ lib.res.tag = "Ok" =>
                  IF lib.op = "read_to_string" \/ line = {}
                  THEN taken = lib.src0
                  ELSE /\ taken[Len(taken)] = 10
                       /\ \A i \in line : i >= Len(taken)

\* read_to_string took the bytes 'H', 0xFE in two reads, its read_to_end
\* returned Ok(2), and it returned an InvalidData error
C20_Witness ==
    /\ lib.op = "read_to_string" /\ lib.pc = "returned"
    /\ lib.src0 = <<72, 254>> /\ lib.buf0 = <<9>>
    /\ lib.res = Ok(2) /\ lib.ret.tag = "Err"
    /\ lib.ret.e.inner.kind = "InvalidData"

\* C21: when read_until(byte, buf), or read_line with '\n', returns Ok(k),
\* k is the offset just past the first byte equal to the delimiter in what
\* the reader had at the call, or the length of that when there is none;
\* buf is what it was at the call followed by those first k bytes; the
\* reader has everything after them left, so that a second call goes on
\* right after the delimiter.
C21_ReadUntil ==
    (/\ lib.op \in {"read_until", "read_line"}
     /\ lib.pc \in {"done", "returned"} /\ lib.res.tag = "Ok") =>
        LET found == {i \in 1..Len(lib.src0) : lib.src0[i] = lib.byte}
            k     == IF found = {} THEN Len(lib.src0)
                     ELSE CHOOSE i \in found : \A j \in found : i <= j
        IN  /\ lib.res.n = k
            /\ lib.buf = lib.buf0 \o SubSeq(lib.src0, 1, k)
            /\ lib.src = SubSeq(lib.src0, k + 1, Len(lib.src0))
            /\ lib.op = "read_until" =>
                   lib.out0 \o lib.all0 = lib.buf \o lib.src

\* a second call has returned the segment right behind the first call's
\* delimiter, up to the next delimiter, and the byte after that is left
\* unread
C21_Witness ==
    /\ lib.op = "read_until" /\ lib.pc = "done" /\ lib.round = 2
    /\ lib.first = Ok(1) /\ lib.res = Ok(1)
    /\ lib.all0 = <<10, 10, 72>> /\ lib.byte = 10
    /\ lib.buf = lib.out0 \o <<10, 10>> /\ lib.src = <<72>>
    /\ lib.out0 # <<>>

\* C22: copy hands the writer chunks of at most 512 bytes, each by
\* write_all.  When it returns Ok(n), the reader is at its end, n is the
\* number of bytes read and the writer has received exactly those bytes in
\* the reader's order.  An interrupted read does not end it.  When it
\* returns an error, that is the error of the last read or write call, or
\* WriteZero for a write that took nothing, and the writer has received no
\* byte but bytes read before, in order.
C22_Copy ==
    lib.op = "copy" =>
        LET read == Len(lib.src0) - Len(lib.src)
        IN  /\ Len(lib.w.data) <= 512
            /\ lib.w.sink = SubSeq(lib.src0, 1, Len(lib.w.sink))
            /\ Len(lib.w.sink) <= read
            /\ (lib.last # None /\ lib.last.tag = "Err"
                  /\ Error_is_interrupted(lib.std, lib.last.e)) => lib.pc = "read"
            /\ (lib.pc = "done" /\ lib.res.tag = "Ok") =>
                   /\ lib.src = <<>> /\ lib.last = Ok(0)
                   /\ lib.res.n = read
                   /\ lib.w.sink = lib.src0
            /\ (lib.pc = "done" /\ lib.res.tag = "Err") =>
                   /\ ~Error_is_interrupted(lib.std, lib.res.e)
                   /\ IF lib.last.tag = "Err"
                      THEN lib.res = lib.last
                      ELSE \/ lib.res = lib.w.last
                           \/ /\ lib.w.last = Ok(0)
                              /\ lib.res = Err(Error_from_kind(lib.std, "WriteZero"))

\* 513 bytes have gone from a slice to the Sink, in a chunk of 512 and one
\* of 1
C22_Witness ==
    /\ lib.op = "copy" /\ lib.pc = "done"
    /\ lib.res = Ok(DEFAULT_STACK_BUFFER_SIZE + 1)
    /\ lib.w.calls = 2 /\ Len(lib.w.data) = 1
    /\ lib.w.sink = lib.src0

\* C23: when read_to_string or read_line has returned, with Ok or with an
\* error, the string (valid UTF-8 before the call) is valid UTF-8, and when
\* the call failed because the bytes appended are not valid UTF-8 the
\* string is what it was before the call.
C23_Utf8Guard ==
    (lib.op \in {"read_to_string", "read_line"} /\ lib.pc = "returned") =>
        /\ from_utf8(lib.buf).ok
        /\ (~from_utf8(SubSeq(lib.buf, Len(lib.buf0) + 1, Len(lib.buf))).ok
              /\ lib.ret.tag = "Err") => lib.buf = lib.buf0

\* C24: write_all of data to a byte slice, or to the slice in an AllowStd,
\* never panics; when data is longer than the slice it fills the slice with
\* the first bytes of data and returns a WriteZero error.
C24_SliceWrite ==
    lib.op = "slice_write" =>
        /\ ~lib.panic
        /\ (lib.pc = "done" /\ Len(lib.data) > lib.len0) =>
               /\ KindOf(lib.res.e) = "WriteZero"
               /\ lib.filled = SubSeq(lib.data, 1, lib.len0)
               /\ lib.slice = <<>>

\* C25: a read from an AllowStd around a byte slice never panics; given a
\* buffer of n bytes it returns min(remaining, n), copies that many of the
\* remaining bytes from their start and takes them off the slice, so that
\* the reads together give the slice's bytes in order; read_exact over it
\* fills the buffer with the slice's first bytes, or fails with
\* UnexpectedEof when the slice is shorter than the buffer.
C25_AllowStdRead ==
    lib.op = "allow_read" =>
        /\ ~lib.panic
        /\ lib.r # None =>
               LET len == Min(Len(lib.s0), lib.n)
               IN  /\ lib.r.n = len
                   /\ lib.r.out = SubSeq(lib.s0, 1, len)
                   /\ lib.slice = SubSeq(lib.s0, len + 1, Len(lib.s0))
        /\ lib.pc = "reads" => lib.got \o lib.slice = lib.slice0
        /\ lib.pc = "done" =>
               IF Len(lib.dst) <= Len(lib.slice0)
               THEN /\ lib.res = Ok(0)
                    /\ lib.dst = SubSeq(lib.slice0, 1, Len(lib.dst))
               ELSE /\ lib.res.tag = "Err"
                    /\ KindOf(lib.res.e) = "UnexpectedEof"

\* C26: a step that declares a capability leaves alone every slot of the
\* handle's table but that capability's, the pointer stored for the
\* mandatory accessor, the owned stream value and the place it lives at; it
\* calls nothing on the stream.
C26_DeclareFrame ==
    [][(declared' # declared \/ redecl') =>
         /\ \E tr \in Caps(kind) :
               \A c \in Caps(kind) \ {tr} : handle'.vtable[c] = handle.vtable[c]
         /\ handle'.io = handle.io
         /\ mem' = mem /\ loc' = loc
         /\ logical' = logical /\ mutated' = mutated /\ panicked' = panicked
         /\ view' = view /\ box' = box]_vars

\* two capabilities declared at different places of a handle whose stream
\* has been read from: the later declaration left the earlier slot alone
C26_Witness ==
    /\ form = "handle" /\ kind = "Reader" /\ mutated
    /\ {"Seek", "BufRead"} \subseteq declared
    /\ handle.vtable["Seek"].addr # handle.vtable["BufRead"].addr
    /\ handle.io.addr # loc
    /\ mem[loc].pos > 0

\* C27: consume(amt) on a Take takes min(limit, amt) off the limit and
\* hands the inner reader's consume that amount and no more; whatever
\* read, fill_buf and consume calls are made, a call never leaves the limit
\* larger than it found it, and the limit stays within 0 and the limit the
\* Take was made with.
C27_TakeConsume ==
    lib.op = "take_buf" =>
        /\ lib.limit >= 0 /\ lib.limit <= lib.l0 /\ lib.l0 <= lib.n0
        /\ (lib.call # None /\ lib.call.m = "consume") =>
              /\ lib.limit = lib.l0 - Min(lib.l0, lib.call.arg)
              /\ lib.asked = Min(lib.l0, lib.call.arg)

\* a consume of more than the limit, after a read: the limit went from 1 to
\* 0 and the inner reader was told to consume 1 byte
C27_Witness ==
    /\ lib.op = "take_buf" /\ lib.n0 = 2 /\ lib.sum = 1
    /\ lib.call # None /\ lib.call.m = "consume" /\ lib.call.arg = 3
    /\ lib.l0 = 1 /\ lib.limit = 0 /\ lib.asked = 1
    /\ lib.src = <<3>> /\ ~lib.panic

\* C28: a seek that fails leaves the cursor as it found it, and the read,
\* write, seek or stream_position that follows it returns what it returns,
\* and leaves the cursor as it leaves it, when it is made on the cursor as
\* it was before the failed seek.
C28_SeekFailure ==
    lib.op = "cursor" =>
        /\ (LastCall("seek") /\ lib.r.err # "") => lib.s = lib.s0
        /\ lib.prev # None =>
              LET m     == lib.call.m
                  arg   == lib.call.arg
                  clean == CASE m = "read"  -> Cursor_read(lib.prev.s0, arg)
                             [] m = "write" -> Cursor_write(lib.prev.s0, arg)
                             [] m = "seek"  -> Cursor_seek(lib.prev.s0, arg)
                             [] m = "stream_position" ->
                                    Cursor_stream_position(lib.prev.s0)
              IN  lib.r = clean /\ lib.s = clean.s

\* a seek to before the start failed on a cursor at position 1 of a buffer
\* of three bytes, and the read that followed got the two bytes from
\* position 1 on
C28_Witness ==
    /\ lib.op = "cursor" /\ lib.prev # None
    /\ lib.prev.call.arg.from = "Current" /\ lib.prev.call.arg.n < -1
    /\ lib.prev.s0.pos = 1 /\ Len(lib.s.data) = 3
    /\ lib.call.m = "read" /\ lib.r.out = <<2, 3>> /\ lib.s.pos = 3

\* C29: read_exact and write_all return in the end.  While the loop runs
\* every call that was not interrupted has moved the start of buf on by at
\* least one byte, so they are no more than the bytes done, which are no
\* more than the buffer holds; the one call more is the one that ended the
\* loop.  Without the host error type no call counts as interrupted and a
\* call that fails ends the loop.
C29_Terminates ==
    /\ [](LET progress == IF lib.op = "read_exact" THEN lib.filled
                                                   ELSE lib.written
              size     == IF lib.op = "read_exact" THEN Len(lib.dst)
                                                   ELSE Len(lib.data)
          IN  /\ progress <= size
              /\ lib.calls - lib.intr <=
                     progress + (IF lib.pc = "done" THEN 1 ELSE 0)
              /\ ~lib.std =>
                     /\ lib.intr = 0
                     /\ (lib.last # None /\ lib.last.tag = "Err")
                            => lib.pc = "done")
    /\ (lib.pc = "loop" ~> lib.pc = "done")

\* a read_exact of three bytes that returned Ok after three reads of one
\* byte and as many interrupted ones as the stream gives
C29_Witness ==
    /\ lib.op = "read_exact" /\ lib.pc = "done" /\ lib.std
    /\ lib.res = Ok(0) /\ Len(lib.dst) = 3
    /\ lib.intr = MaxIntr /\ lib.calls = 3 + MaxIntr

\* the run of read_with_skip on a handle without Seek over a reader with
\* the bytes data, as a function of its inputs: the skip loop's reads and
\* then what read_to_end appends
RECURSIVE skip_by_read(_, _)
skip_by_read(data, skip) ==
    IF skip = 0
    THEN [res |-> "Ok", appended |-> data]
    ELSE LET r == Slice_read(data, Min(SkipBufLen, skip))
         IN  IF r.n = 0
             THEN [res |-> "UnexpectedEof", appended |-> <<>>]
             ELSE skip_by_read(r.rest, skip - r.n)

\* C30: when read_with_skip returns, it has returned what the run on a
\* handle without Seek over the same bytes returns: Ok with the same bytes
\* appended to the output, or an error where that run returns an error;
\* with Seek declared or without, for every skip.
C30_SkipSameOutcome ==
    rws.pc = "done" =>
        LET plain == skip_by_read(orig.data, rws.skip0)
        IN  IF plain.res = "Ok"
            THEN rws.res = "Ok" /\ rws.buffer = rws.buf0 \o plain.appended
            ELSE rws.res # "Ok"

====
